---------------------------- MODULE Spec2Model ----------------------------
(***************************************************************************)
(* State-machine model of the SARIMAX representation builder               *)
(* (statsmodels/tsa/statespace/sarimax.py) and of the maximum-likelihood   *)
(* driver (statsmodels/tsa/statespace/mlemodel.py).                        *)
(*                                                                         *)
(* Conventions.  numpy arrays are TLA+ sequences, so the numpy index j     *)
(* (0-based) is position j+1.  Real numbers are represented by integers;   *)
(* the exogenous data matrix is symbolic (only its column count is kept).  *)
(***************************************************************************)
EXTENDS Integers, Sequences, FiniteSets, TLC

(***************************************************************************)
(* Bounds of the model.                                                    *)
(***************************************************************************)
MaxP == 1          \* largest integer AR order p enumerated
MaxD == 1          \* largest differencing order d enumerated
MaxExog == 1       \* largest number of exogenous columns enumerated
MaxEvals == 2      \* objective evaluations per optimizer pass

\* Length of the observed series handed to the constructor.
NobsIn == 12

(***************************************************************************)
(* Generic sequence helpers.                                               *)
(***************************************************************************)
Max(a, b) == IF a >= b THEN a ELSE b

Min(a, b) == IF a <= b THEN a ELSE b

\* [v] * n of Python: the empty list when n <= 0.
Rep(v, n) == [i \in 1..n |-> v]

RECURSIVE SumSeq(_)
SumSeq(s) == IF s = <<>> THEN 0 ELSE Head(s) + SumSeq(Tail(s))

RECURSIVE Concat(_)
Concat(ss) == IF ss = <<>> THEN <<>> ELSE Head(ss) \o Concat(Tail(ss))

\* s[lo:hi] of Python for 0 <= lo, with hi clipped to the length.
Slice(s, lo, hi) == [i \in 1..Max(Min(hi, Len(s)) - lo, 0) |-> s[lo + i]]

Neg(s) == [i \in 1..Len(s) |-> 0 - s[i]]

\* numpy.nonzero(p)[0][1:] as increasing 0-based indices.
RECURSIVE NonzeroFrom(_, _)
NonzeroFrom(p, j) ==
    IF j > Len(p) THEN <<>>
    ELSE (IF p[j] # 0 THEN <<j - 1>> ELSE <<>>) \o NonzeroFrom(p, j + 1)

NonzeroIdx(p) == IF NonzeroFrom(p, 1) = <<>> THEN <<>> ELSE Tail(NonzeroFrom(p, 1))

\* p[idx] = vals (numpy fancy-index assignment, idx 0-based).
SetAt(p, idx, vals) ==
    [j \in 1..Len(p) |->
        IF \E k \in 1..Len(idx) : idx[k] = j - 1
        THEN vals[CHOOSE k \in 1..Len(idx) : idx[k] = j - 1]
        ELSE p[j]]

\* numpy.polymul of two coefficient sequences with nonzero leading entry.
polymul(a, b) ==
    [n \in 1..(Len(a) + Len(b) - 1) |->
        SumSeq([i \in 1..Len(a) |->
            IF n - i + 1 >= 1 /\ n - i + 1 <= Len(b) THEN a[i] * b[n - i + 1] ELSE 0])]

(***************************************************************************)
(* 4.1 Lag-polynomial builder (SARIMAX.__init__, lines 192-245).           *)
(* An order specification is [isint, n, lags]: an integer count n or an    *)
(* explicit 0/1 list `lags`.                                               *)
(***************************************************************************)
IntOrder(n) == [isint |-> TRUE, n |-> n, lags |-> <<>>]

ListOrder(l) == [isint |-> FALSE, n |-> 0, lags |-> l]

\* Variant of build_polynomial that includes every lag up to the length of
\* an explicit list.
build_polynomial_mutant(o) ==
    IF o.isint THEN <<1>> \o Rep(1, o.n) ELSE <<1>> \o Rep(1, Len(o.lags))

\* Lines 196-203.
build_polynomial(o) ==
    IF o.isint THEN <<1>> \o Rep(1, o.n) ELSE <<1>> \o o.lags

SeasonBlock(s) == Rep(0, s - 1) \o <<1>>

build_seasonal_polynomial(o, s) ==
    IF o.isint
    THEN <<1>> \o Concat(Rep(SeasonBlock(s), o.n))
    ELSE SetAt(<<1>> \o Rep(0, s * Len(o.lags)),
               [i \in 1..Len(o.lags) |-> i * s], o.lags)

build_trend_polynomial(t) ==
    CASE t = "n"  -> <<>>
      [] t = "c"  -> <<1>>
      [] t = "t"  -> <<0, 1>>
      [] t = "ct" -> <<1, 1>>


(***************************************************************************)
(* Constructor arguments.  `args` is the immutable ModelSpec:              *)
(*   p, q, P, Q : order specifications; d, D, s : integers;                *)
(*   trend : "n" | "c" | "t" | "ct"; has_exog / exog_cols : exog=None or   *)
(*   an nobs x exog_cols matrix; the seven boolean flags; nobs : len(endog)*)
(***************************************************************************)
polynomial_ar_of(a) == build_polynomial(a.p)

polynomial_ma_of(a) == build_polynomial(a.q)

polynomial_seasonal_ar_of(a) == build_seasonal_polynomial(a.P, a.s)

polynomial_seasonal_ma_of(a) == build_seasonal_polynomial(a.Q, a.s)

\* Lines 253-263: degree and number of included non-constant terms.
degree(poly) == Len(poly) - 1

n_params(poly) == SumSeq(poly) - 1

\* Lines 286-291: the model order.
k_order_of(k_ar, k_seasonal_ar, k_ma, k_seasonal_ma) ==
    IF k_ar = k_ma /\ k_ma = 0
    THEN 0
    ELSE Max(k_ar + k_seasonal_ar, k_ma + k_seasonal_ma + 1)

\* Lines 293-302: exog.shape[1], 0 when exog is None.
k_exog_of(a) == IF a.has_exog THEN a.exog_cols ELSE 0

\* Lines 305-307.
mle_regression_of(a) == a.mle_regression /\ a.has_exog /\ k_exog_of(a) > 0

\* Lines 310-312.
state_regression_of(a) == ~mle_regression_of(a) /\ a.has_exog /\ k_exog_of(a) > 0

\* Variant of k_states_of that keeps the differencing states under simple
\* differencing.
k_states_of_mutant(k_order, a, state_regression, k_exog) ==
    k_order
    + (a.s * a.D + a.d)
    + (IF state_regression THEN k_exog ELSE 0)

\* Lines 318-323: number of states.
\* a: the constructor arguments (a.s = k_seasons, a.D = _k_seasonal_diff,
\* a.d = _k_diff at that point).
k_states_of(k_order, a, state_regression, k_exog) ==
    k_order
    + (IF ~a.simple_differencing THEN a.s * a.D + a.d ELSE 0)
    + (IF state_regression THEN k_exog ELSE 0)

\* Lines 330-335: number of positive definite elements of the state covariance.
k_posdef_of(k_order, state_regression, time_varying_regression, k_exog) ==
    (IF k_order > 0 THEN 1 ELSE 0)
    + (IF state_regression /\ time_varying_regression THEN k_exog ELSE 0)

\* Variant of k_params_of that counts the exogenous columns whatever the
\* regression mode.
k_params_of_mutant(k, measurement_error, mle_regression, k_exog) ==
    k.k_ar_params + k.k_ma_params
    + k.k_seasonal_ar_params + k.k_seasonal_ar_params
    + k.k_trend
    + (IF measurement_error THEN 1 ELSE 0) + 1
    + k_exog

\* Lines 343-351: number of parameters.
\* k: the k_*_params counts and k_trend; k_seasonal_ma_params is not used.
k_params_of(k, measurement_error, mle_regression, k_exog) ==
    k.k_ar_params + k.k_ma_params
    + k.k_seasonal_ar_params + k.k_seasonal_ar_params
    + k.k_trend
    + (IF measurement_error THEN 1 ELSE 0) + 1
    + (IF mle_regression THEN k_exog ELSE 0)

\* tools.diff (not in the sources at hand): differencing d times and
\* seasonally D times with period s drops the first d + s*D observations.
diff_len(n, d, D, s) == Max(n - (d + s * D), 0)

(***************************************************************************)
(* The attributes SARIMAX.__init__ sets before building the matrices       *)
(* (lines 170-378), and initialize() (lines 400-452).                      *)
(***************************************************************************)
Attributes(a) ==
    LET par   == polynomial_ar_of(a)
        pma   == polynomial_ma_of(a)
        psar  == polynomial_seasonal_ar_of(a)
        psma  == polynomial_seasonal_ma_of(a)
        ptr   == build_trend_polynomial(a.trend)
        k_ar  == degree(par)
        k_ma  == degree(pma)
        k_sar == degree(psar)
        k_sma == degree(psma)
        k_order == k_order_of(k_ar, k_sar, k_ma, k_sma)
        k_exog  == k_exog_of(a)
        mle     == mle_regression_of(a)
        streg   == state_regression_of(a)
        \* line 315-316
        meas    == IF streg /\ k_order = 0 THEN TRUE ELSE a.measurement_error
        k_states == k_states_of(k_order, a, streg, k_exog)
        k_diffuse == k_states - (IF a.enforce_stationarity THEN k_order ELSE 0)
        k_posdef == k_posdef_of(k_order, streg, a.time_varying_regression, k_exog)
        \* lines 356-368
        differenced == a.simple_differencing /\ (a.d > 0 \/ a.D > 0)
        kd   == IF differenced THEN 0 ELSE a.d
        ksd  == IF differenced THEN 0 ELSE a.D
        \* lines 421-435
        off  == kd + a.s * ksd
    IN  [ k_seasons |-> a.s,
          measurement_error |-> meas,
          time_varying_regression |-> a.time_varying_regression,
          mle_regression |-> mle,
          simple_differencing |-> a.simple_differencing,
          enforce_stationarity |-> a.enforce_stationarity,
          enforce_invertibility |-> a.enforce_invertibility,
          hamilton_representation |-> a.hamilton_representation,
          polynomial_ar |-> par,
          polynomial_ma |-> pma,
          polynomial_seasonal_ar |-> psar,
          polynomial_seasonal_ma |-> psma,
          trend |-> a.trend,
          polynomial_trend |-> ptr,
          k_ar |-> k_ar,
          k_ar_params |-> n_params(par),
          k_diff |-> a.d,
          k_ma |-> k_ma,
          k_ma_params |-> n_params(pma),
          k_seasonal_ar |-> k_sar,
          k_seasonal_ar_params |-> n_params(psar),
          k_seasonal_diff |-> a.D,
          k_seasonal_ma |-> k_sma,
          k_seasonal_ma_params |-> n_params(psma),
          _k_diff |-> kd,
          _k_seasonal_diff |-> ksd,
          k_trend |-> SumSeq(ptr),
          _k_order |-> k_order,
          k_exog |-> k_exog,
          state_regression |-> streg,
          state_error |-> k_posdef_of(k_order, FALSE, FALSE, 0) > 0,
          k_params |-> k_params_of([k_ar_params |-> n_params(par),
                                    k_ma_params |-> n_params(pma),
                                    k_seasonal_ar_params |-> n_params(psar),
                                    k_seasonal_ma_params |-> n_params(psma),
                                    k_trend |-> SumSeq(ptr)], meas, mle, k_exog),
          nobs |-> IF differenced THEN diff_len(a.nobs, a.d, a.D, a.s) ELSE a.nobs,
          k_states |-> k_states,
          k_posdef |-> k_posdef,
          k_diffuse_states |-> k_diffuse,
          loglikelihood_burn |-> k_diffuse,
          _polynomial_ar_idx |-> NonzeroIdx(par),
          _polynomial_ma_idx |-> NonzeroIdx(pma),
          _polynomial_seasonal_ar_idx |-> NonzeroIdx(psar),
          _polynomial_seasonal_ma_idx |-> NonzeroIdx(psma),
          \* np.s_[start_row:end_row, col] as [lo, hi, col] (0-based, hi exclusive)
          transition_ar_params_idx |-> [lo |-> off, hi |-> off + k_ar + k_sar, col |-> off],
          ma_params_idx |-> [lo |-> off + 1, hi |-> off + 1 + k_ma + k_sma, col |-> 0] ]

(***************************************************************************)
(* 4.2 Representation builder: the fixed components (lines 513-627).       *)
(* A matrix is a sequence of rows.  m is the attribute record.             *)
(***************************************************************************)
\* Number of regression states appended to the state vector.
k_exog_states(m) == IF m.state_regression THEN m.k_exog ELSE 0

\* Offset of the first stationary state: _k_diff + k_seasons * _k_seasonal_diff.
diff_offset(m) == m._k_diff + m.k_seasons * m._k_seasonal_diff

\* Lines 513-536.  The exogenous columns appended under state regression are
\* data; each is written -1 here.  tv: the matrix has a time axis of length nobs.
initial_design(m) ==
    LET design == Rep(1, m._k_diff)
                  \o Concat(Rep(SeasonBlock(m.k_seasons), m._k_seasonal_diff))
                  \o Rep(1, IF m.state_error THEN 1 ELSE 0)
                  \o Rep(0, m._k_order - 1)
    IN  IF m.state_regression
        THEN IF m._k_order > 0
             THEN [row |-> design \o Rep(0 - 1, m.k_exog), tv |-> TRUE]
             ELSE [row |-> Rep(0 - 1, m.k_exog), tv |-> TRUE]
        ELSE [row |-> design, tv |-> FALSE]

\* Lines 538-546: zeros, with a time axis when there is a trend.
\* row: the state row holding the trend (-1: none written), coef: its coefficients.
initial_state_intercept(m) ==
    [n |-> m.k_states, tv |-> m.k_trend > 0, row |-> 0 - 1, coef |-> <<>>]

\* tools.companion_matrix(n) for an integer n: ones on the superdiagonal.
companion_matrix(r, c) == IF c = r + 1 THEN 1 ELSE 0

\* Line 567 assigns the _k_order x _k_order companion matrix to the slice
\* [start:end, start:end]; with start = -_k_order = 0 that slice is the whole
\* matrix, and numpy refuses to broadcast a 0x0 array into it.
transition_broadcast_error(m) ==
    ~m.state_regression /\ m._k_order = 0 /\ m.k_states > 0

\* Variant of transition_entry whose differencing block leaves the diagonal 0.
transition_entry_mutant(m, i, j) ==
    LET n   == m.k_states
        kd  == m._k_diff
        ksd == m._k_seasonal_diff
        s   == m.k_seasons
        ko  == m._k_order
        kx  == k_exog_states(m)
        off == diff_offset(m)
        b0  == n - kx - ko
        dd  == IF s > 0 THEN (i - kd) \div s ELSE 0
        inSeasonalBlock ==
            /\ ksd > 0 /\ s > 0
            /\ i >= kd /\ i < off /\ j >= kd /\ j < off
            /\ (j - kd) \div s = dd
        seasonalStart == ksd > 0 /\ s > 0 /\ i >= kd /\ i < off /\ (i - kd) % s = 0
    IN  CASE \* differencing component (lines 593-604)
             kd > 0 /\ i < kd /\ i < j /\ j < kd -> 1
          [] kd > 0 /\ i < kd /\ s > 0 /\ j >= kd /\ j < off ->
                 IF (j - kd + 1) % s = 0 THEN 1 ELSE 0
          [] kd > 0 /\ i < kd /\ j = off -> 1
             \* seasonal differencing component (lines 575-590)
          [] seasonalStart /\ j = off -> 1
          [] seasonalStart /\ dd + 1 < ksd /\ j = kd + (dd + 2) * s - 1 -> 1
          [] inSeasonalBlock ->
                 IF (i - kd) % s = ((j - kd) % s) + 1
                    \/ ((i - kd) % s = 0 /\ (j - kd) % s = s - 1)
                 THEN 1 ELSE 0
             \* autoregressive component (lines 558-571)
          [] ko > 0 /\ i >= b0 /\ i < b0 + ko /\ j >= b0 /\ j < b0 + ko ->
                 IF m.hamilton_representation
                 THEN companion_matrix(j - b0, i - b0)
                 ELSE companion_matrix(i - b0, j - b0)
             \* exogenous regressors component (lines 553-556)
          [] kx > 0 /\ i >= n - kx /\ j >= n - kx -> IF i = j THEN 1 ELSE 0
          [] OTHER -> 0

\* Lines 548-606.  Later assignments override earlier ones.
transition_entry(m, i, j) ==
    LET n   == m.k_states
        kd  == m._k_diff
        ksd == m._k_seasonal_diff
        s   == m.k_seasons
        ko  == m._k_order
        kx  == k_exog_states(m)
        off == diff_offset(m)
        b0  == n - kx - ko
        dd  == IF s > 0 THEN (i - kd) \div s ELSE 0
        inSeasonalBlock ==
            /\ ksd > 0 /\ s > 0
            /\ i >= kd /\ i < off /\ j >= kd /\ j < off
            /\ (j - kd) \div s = dd
        seasonalStart == ksd > 0 /\ s > 0 /\ i >= kd /\ i < off /\ (i - kd) % s = 0
    IN  CASE \* differencing component (lines 593-604)
             kd > 0 /\ i < kd /\ i <= j /\ j < kd -> 1
          [] kd > 0 /\ i < kd /\ s > 0 /\ j >= kd /\ j < off ->
                 IF (j - kd + 1) % s = 0 THEN 1 ELSE 0
          [] kd > 0 /\ i < kd /\ j = off -> 1
             \* seasonal differencing component (lines 575-590)
          [] seasonalStart /\ j = off -> 1
          [] seasonalStart /\ dd + 1 < ksd /\ j = kd + (dd + 2) * s - 1 -> 1
          [] inSeasonalBlock ->
                 IF (i - kd) % s = ((j - kd) % s) + 1
                    \/ ((i - kd) % s = 0 /\ (j - kd) % s = s - 1)
                 THEN 1 ELSE 0
             \* autoregressive component (lines 558-571)
          [] ko > 0 /\ i >= b0 /\ i < b0 + ko /\ j >= b0 /\ j < b0 + ko ->
                 IF m.hamilton_representation
                 THEN companion_matrix(j - b0, i - b0)
                 ELSE companion_matrix(i - b0, j - b0)
             \* exogenous regressors component (lines 553-556)
          [] kx > 0 /\ i >= n - kx /\ j >= n - kx -> IF i = j THEN 1 ELSE 0
          [] OTHER -> 0

initial_transition(m) ==
    [i \in 1..m.k_states |->
        [j \in 1..m.k_states |-> transition_entry(m, i - 1, j - 1)]]

\* Lines 608-627 (the time-varying regression branch is unreachable: the
\* constructor raises before, lines 182-190).
initial_selection(m) ==
    IF m.k_posdef > 0
    THEN LET col == Rep(0, diff_offset(m))
                    \o Rep(1, IF m._k_order > 0 THEN 1 ELSE 0)
                    \o Rep(0, m._k_order - 1)
                    \o Rep(0, (IF m.mle_regression THEN 0 ELSE 1) * m.k_exog)
         IN  [i \in 1..Len(col) |-> <<col[i]>>]
    ELSE Rep(<<>>, m.k_states)

\* The representation right after construction (lines 384-393).  Model.__init__
\* allocates zero observation/state covariances and a zero observation intercept.
initial_representation(m) ==
    [ design |-> initial_design(m),
      state_intercept |-> initial_state_intercept(m),
      transition |-> initial_transition(m),
      selection |-> initial_selection(m),
      obs_intercept |-> [exog_beta |-> <<>>, trend |-> <<>>, divisor |-> 1],
      obs_cov |-> 0,
      state_cov |-> Rep(0, m.k_posdef),
      \* lines 397-398: Model.initialize_stationary for a model without
      \* diffuse states
      initialization |-> [kind |-> IF m.k_diffuse_states = 0 THEN "stationary"
                                   ELSE "none",
                          lyapunov |-> FALSE, of |-> <<>>, given |-> <<>>],
      built |-> TRUE ]

(***************************************************************************)
(* 4.3 Parameter transform (lines 971-1118).                               *)
(*                                                                         *)
(* tools.constrain_stationary_univariate / unconstrain_stationary_univariate*)
(* are not among the sources at hand; they are modelled from the           *)
(* specification: each raw value is squashed, then a Levinson-Durbin       *)
(* recursion builds the coefficients from the partial autocorrelations.    *)
(* The recursion is exact over the integers; the real-valued squashing     *)
(* x / sqrt(1 + x^2) is represented by the odd, strictly increasing map    *)
(* x |-> 2x, whose image avoids the singular points +1 and -1.             *)
(***************************************************************************)
Squash(x) == 2 * x

Unsquash(r) == r \div 2

RECURSIVE Levinson(_, _)
Levinson(r, k) ==
    IF k = 0 THEN <<>>
    ELSE LET y == Levinson(r, k - 1)
         IN  [i \in 1..k |-> IF i = k THEN r[k] ELSE y[i] + r[k] * y[k - i]]

constrain_stationary_univariate(unconstrained) ==
    Neg(Levinson([i \in 1..Len(unconstrained) |-> Squash(unconstrained[i])],
                 Len(unconstrained)))

ExactDiv(num, den) == IF den > 0 THEN num \div den ELSE (0 - num) \div (0 - den)

\* The partial autocorrelations of y, last first undone.
RECURSIVE Pacf(_)
Pacf(y) ==
    IF y = <<>> THEN <<>>
    ELSE LET k == Len(y)
             r == y[k]
             prev == [i \in 1..(k - 1) |->
                         ExactDiv(y[i] - r * y[k - i], 1 - r * r)]
         IN  Pacf(prev) \o <<r>>

unconstrain_stationary_univariate(constrained) ==
    LET r == Pacf(Neg(constrained))
    IN  [i \in 1..Len(r) |-> Unsquash(r[i])]

\* x**2 and x**0.5 on the values the model draws (perfect squares).
Square(x) == x * x

Sqrt(x) == CHOOSE r \in 0..Max(x, 0) : r * r = x

\* The segments transform_params and untransform_params walk through (lines
\* 981-1043 and 1054-1116), in order: [name, len, kind].  A segment whose guard
\* is false is consumed with length 0.
transform_layout(m) ==
    << [name |-> "trend", len |-> IF m.k_trend > 0 THEN m.k_trend ELSE 0,
        kind |-> "identity"],
       [name |-> "exog", len |-> IF m.mle_regression THEN m.k_exog ELSE 0,
        kind |-> "identity"],
       [name |-> "ar", len |-> IF m.k_ar_params > 0 THEN m.k_ar_params ELSE 0,
        kind |-> IF m.enforce_stationarity THEN "stationary" ELSE "identity"],
       [name |-> "ma", len |-> IF m.k_ma_params > 0 THEN m.k_ma_params ELSE 0,
        kind |-> IF m.enforce_invertibility THEN "stationary" ELSE "identity"],
       [name |-> "seasonal_ar",
        len |-> IF m.k_seasonal_ar > 0 THEN m.k_seasonal_ar_params ELSE 0,
        kind |-> IF m.enforce_stationarity THEN "stationary" ELSE "identity"],
       [name |-> "seasonal_ma",
        len |-> IF m.k_seasonal_ma_params > 0 THEN m.k_seasonal_ma_params ELSE 0,
        kind |-> IF m.enforce_invertibility THEN "stationary" ELSE "identity"],
       [name |-> "exog_variance",
        len |-> IF m.state_regression /\ m.time_varying_regression
                THEN m.k_exog ELSE 0,
        kind |-> "square"],
       [name |-> "measurement_variance",
        len |-> IF m.measurement_error THEN 1 ELSE 0, kind |-> "square"],
       [name |-> "variance",
        len |-> IF m.state_error THEN 1 ELSE 0, kind |-> "square"] >>

\* The segments update extracts (lines 1133-1165).
update_layout(m) ==
    << [name |-> "trend", len |-> m.k_trend],
       [name |-> "exog", len |-> IF m.mle_regression THEN m.k_exog ELSE 0],
       [name |-> "ar", len |-> m.k_ar_params],
       [name |-> "ma", len |-> m.k_ma_params],
       [name |-> "seasonal_ar", len |-> m.k_seasonal_ar_params],
       [name |-> "seasonal_ma", len |-> m.k_seasonal_ma_params],
       [name |-> "exog_variance",
        len |-> IF m.state_regression /\ m.time_varying_regression
                THEN m.k_exog ELSE 0],
       [name |-> "measurement_variance",
        len |-> IF m.measurement_error THEN 1 ELSE 0],
       [name |-> "variance", len |-> IF m.state_error THEN 1 ELSE 0] >>

\* Offset of segment number n of a layout, and the layout's total length.
SegStart(layout, n) == SumSeq([i \in 1..(n - 1) |-> layout[i].len])

SegTotal(layout) == SegStart(layout, Len(layout) + 1)

Segment(layout, v, n) ==
    Slice(v, SegStart(layout, n), SegStart(layout, n) + layout[n].len)

SegIndex(layout, name) == CHOOSE n \in 1..Len(layout) : layout[n].name = name

\* One segment of the transform, by kind.
constrain_segment(kind, seg) ==
    CASE kind = "identity"   -> seg
      [] kind = "stationary" -> constrain_stationary_univariate(seg)
      [] kind = "square"     -> [i \in 1..Len(seg) |-> Square(seg[i])]

\* Variant of unconstrain_segment that leaves a squared entry as it is.
unconstrain_segment_mutant(kind, seg) ==
    CASE kind = "identity"   -> seg
      [] kind = "stationary" -> unconstrain_stationary_univariate(seg)
      [] kind = "square"     -> seg

\* One segment of the inverse transform, by kind.
unconstrain_segment(kind, seg) ==
    CASE kind = "identity"   -> seg
      [] kind = "stationary" -> unconstrain_stationary_univariate(seg)
      [] kind = "square"     -> [i \in 1..Len(seg) |-> Sqrt(seg[i])]

\* Lines 971-1045.  Entries past the last segment stay 0 (np.zeros).
transform_params(m, unconstrained) ==
    LET layout == transform_layout(m)
        body == Concat([n \in 1..Len(layout) |->
                    constrain_segment(layout[n].kind,
                                      Segment(layout, unconstrained, n))])
    IN  body \o Rep(0, Len(unconstrained) - Len(body))

\* Lines 1047-1118.
untransform_params(m, constrained) ==
    LET layout == transform_layout(m)
        body == Concat([n \in 1..Len(layout) |->
                    unconstrain_segment(layout[n].kind,
                                        Segment(layout, constrained, n))])
    IN  body \o Rep(0, Len(constrained) - Len(body))

(***************************************************************************)
(* 4.4 Initialization policy (lines 454-511).  The initial state           *)
(* distribution is kept symbolically: kind names the last initialization   *)
(* call on the base Model, lyapunov tells whether a stationary block was   *)
(* solved for, `of` holds the constrained parameters the matrices held at  *)
(* that time, and `given` holds the <<mean, covariance>> a caller supplied  *)
(* (empty when the values were computed).                                  *)
(***************************************************************************)
\* Lines 466-511, as [manual, initialization].
initialize_state(m, ini, p) ==
    IF m._manual_initialization
    THEN [manual |-> TRUE, initialization |-> ini]
    ELSE [ \* line 474 goes through SARIMAX.initialize_approximate_diffuse,
           \* which sets the flag (line 459); execution then continues.
           manual |-> ~m.enforce_stationarity,
           initialization |-> [kind |-> "known", lyapunov |-> m._k_order > 0,
                               of |-> p, given |-> <<>>] ]

(***************************************************************************)
(* update (lines 1120-1339).                                               *)
(***************************************************************************)
\* numpy's verdict on  A[lo:hi, col] = v  for A with n_rows x n_cols entries
\* and v of length L: the column must exist, and the clipped slice must have
\* L rows unless L = 1 (a single value broadcasts, also to an empty slice).
slice_write_error(n_rows, n_cols, lo, hi, col, L) ==
    IF col >= n_cols THEN "IndexError"
    ELSE IF Max(Min(hi, n_rows) - Min(lo, n_rows), 0) = L \/ L = 1 THEN "none"
    ELSE "ValueError"

\* M[lo:hi, col] = vals, for an in-range write.
write_column(M, lo, hi, col, vals) ==
    [i \in 1..Len(M) |-> [j \in 1..Len(M[i]) |->
        IF j - 1 = col /\ i - 1 >= lo /\ i - 1 < hi /\ i - lo <= Len(vals)
        THEN vals[i - lo] ELSE M[i][j]]]

\* M[row, lo:hi] = vals.
write_row(M, row, lo, hi, vals) ==
    [i \in 1..Len(M) |-> [j \in 1..Len(M[i]) |->
        IF i - 1 = row /\ j - 1 >= lo /\ j - 1 < hi /\ j - lo <= Len(vals)
        THEN vals[j - lo] ELSE M[i][j]]]

\* MLEModel.update (mlemodel.py lines 414-420): the constrained vector.
MLEModel_update_params(m, params, transformed) ==
    IF ~transformed THEN transform_params(m, params) ELSE params

\* Lines 1167-1228: the lag polynomials after update, and the reduced forms.
polynomials_from(m, p, lay) ==
    LET par  == IF m.k_ar > 0
                THEN SetAt(m.polynomial_ar, m._polynomial_ar_idx,
                           Neg(Segment(lay, p, SegIndex(lay, "ar"))))
                ELSE m.polynomial_ar
        pma  == IF m.k_ma > 0
                THEN SetAt(m.polynomial_ma, m._polynomial_ma_idx,
                           Segment(lay, p, SegIndex(lay, "ma")))
                ELSE m.polynomial_ma
        psar == IF m.k_seasonal_ar > 0
                THEN SetAt(m.polynomial_seasonal_ar, m._polynomial_seasonal_ar_idx,
                           Neg(Segment(lay, p, SegIndex(lay, "seasonal_ar"))))
                ELSE m.polynomial_seasonal_ar
        psma == IF m.k_seasonal_ma > 0
                THEN SetAt(m.polynomial_seasonal_ma, m._polynomial_seasonal_ma_idx,
                           Segment(lay, p, SegIndex(lay, "seasonal_ma")))
                ELSE m.polynomial_seasonal_ma
    IN  [ polynomial_ar |-> par, polynomial_ma |-> pma,
          polynomial_seasonal_ar |-> psar, polynomial_seasonal_ma |-> psma,
          reduced_polynomial_ar |->
              IF m.k_seasonal_ar > 0 THEN Neg(polymul(par, psar)) ELSE Neg(par),
          reduced_polynomial_ma |->
              IF m.k_seasonal_ma > 0 THEN polymul(pma, psma) ELSE pma ]

updated_polynomials(m, p) == polynomials_from(m, p, update_layout(m))

\* The first statement of update that raises, as [exc, line]; line 0: none.
update_error(m, rep) ==
    LET n   == m.k_states
        ai  == m.transition_ar_params_idx
        mi  == m.ma_params_idx
        Lar == m.k_ar + m.k_seasonal_ar
        Lma == m.k_ma + m.k_seasonal_ma
        eT  == slice_write_error(n, n, ai.lo, ai.hi, ai.col, Lar)
        eS  == slice_write_error(n, m.k_posdef, mi.lo, mi.hi, mi.col, Lma)
        eD  == slice_write_error(Len(rep.design.row), 1, mi.lo, mi.hi, mi.col, Lma)
    IN  IF m.k_trend > 0 /\ ~m.hamilton_representation /\ diff_offset(m) >= n
        THEN [exc |-> "IndexError", line |-> 1253]
        ELSE IF (m.k_ar > 0 \/ m.k_seasonal_ar > 0) /\ eT # "none"
        THEN [exc |-> eT, line |-> 1287]
        ELSE IF (m.k_ma > 0 \/ m.k_seasonal_ma > 0)
                /\ ~m.hamilton_representation /\ eS # "none"
        THEN [exc |-> eS, line |-> 1303]
        ELSE IF (m.k_ma > 0 \/ m.k_seasonal_ma > 0)
                /\ m.hamilton_representation /\ eD # "none"
        THEN [exc |-> eD, line |-> 1314]
        ELSE [exc |-> "none", line |-> 0]

\* The body of SARIMAX.update once the segments (lay), the polynomials (pol)
\* and the first raising statement (err) are known.  A statement after the
\* raising one is not run.
apply_update(m, rep, p, lay, pol, err) ==
    LET seg(name) == Segment(lay, p, SegIndex(lay, name))
        upto(line) == err.line = 0 \/ line < err.line
        ai   == m.transition_ar_params_idx
        mi   == m.ma_params_idx
        rar  == Tail(pol.reduced_polynomial_ar)
        rma  == Tail(pol.reduced_polynomial_ma)
        \* lines 1234-1241 and 1258-1273
        oi1  == IF m.mle_regression
                THEN [exog_beta |-> seg("exog"), trend |-> <<>>, divisor |-> 1]
                ELSE rep.obs_intercept
        oi2  == IF m.k_trend > 0 /\ m.hamilton_representation
                THEN [exog_beta |-> IF m.mle_regression THEN seg("exog") ELSE <<>>,
                      trend |-> seg("trend"),
                      divisor |-> SumSeq(Neg(pol.reduced_polynomial_ar))]
                ELSE oi1
        \* lines 1249-1257
        si   == IF m.k_trend > 0 /\ ~m.hamilton_representation /\ upto(1254)
                THEN [rep.state_intercept EXCEPT !.row = diff_offset(m),
                                                 !.coef = seg("trend")]
                ELSE rep.state_intercept
        \* lines 1276-1282
        oc   == IF m.measurement_error /\ upto(1278)
                THEN seg("measurement_variance")[1] ELSE rep.obs_cov
        \* lines 1285-1297
        tr   == IF (m.k_ar > 0 \/ m.k_seasonal_ar > 0) /\ upto(1288)
                THEN IF m.hamilton_representation
                     THEN write_row(rep.transition, ai.col, ai.lo, ai.hi, rar)
                     ELSE write_column(rep.transition, ai.lo, ai.hi, ai.col, rar)
                ELSE rep.transition
        \* lines 1300-1322
        hasma == m.k_ma > 0 \/ m.k_seasonal_ma > 0
        sel  == IF hasma /\ ~m.hamilton_representation /\ upto(1304)
                THEN write_column(rep.selection, mi.lo, mi.hi, mi.col, rma)
                ELSE rep.selection
        des  == IF hasma /\ m.hamilton_representation /\ upto(1315)
                THEN [rep.design EXCEPT !.row =
                         [j \in 1..Len(rep.design.row) |->
                            IF j - 1 >= mi.lo /\ j - 1 < mi.hi /\ j - mi.lo <= Len(rma)
                            THEN rma[j - mi.lo] ELSE rep.design.row[j]]]
                ELSE rep.design
        \* lines 1325-1335
        sc   == IF m.k_posdef > 0 /\ upto(1327)
                THEN [rep.state_cov EXCEPT ![1] = seg("variance")[1]]
                ELSE rep.state_cov
        \* lines 1338-1339
        ini  == IF upto(1339) /\ ~m._manual_initialization
                THEN initialize_state(m, rep.initialization, p)
                ELSE [manual |-> m._manual_initialization,
                      initialization |-> rep.initialization]
    IN  [ self |-> [m EXCEPT !.polynomial_ar = pol.polynomial_ar,
                             !.polynomial_ma = pol.polynomial_ma,
                             !.polynomial_seasonal_ar = pol.polynomial_seasonal_ar,
                             !.polynomial_seasonal_ma = pol.polynomial_seasonal_ma,
                             !._manual_initialization = ini.manual],
          ssm |-> [ design |-> des,
                    state_intercept |-> si,
                    transition |-> tr,
                    selection |-> sel,
                    obs_intercept |-> IF upto(1265) THEN oi2 ELSE oi1,
                    obs_cov |-> oc,
                    state_cov |-> sc,
                    initialization |-> ini.initialization,
                    built |-> TRUE ],
          err |-> err ]

\* SARIMAX.update on the constrained vector p, as [self, ssm, err].
SARIMAX_update(m, rep, p) ==
    apply_update(m, rep, p, update_layout(m), updated_polynomials(m, p),
                 update_error(m, rep))

(***************************************************************************)
(* The state machine.                                                      *)
(*   args   : the constructor arguments (ModelSpec)                        *)
(*   status : [stage, exc, line]; stage is "new" before SARIMAX(...) runs, *)
(*            "constructed" after it returned, "failed" after it raised;   *)
(*            exc/line name the last exception raised and its source line  *)
(*   self   : the model's attributes                                       *)
(*   ssm    : the owned state-space representation                         *)
(*   params : model.params, [set, v]; set = FALSE is Python's None         *)
(*   fit    : the position of a running MLEModel.fit and its locals        *)
(*   call   : the last call made on the model, its arguments and result    *)
(*   pred   : the last predict or forecast call made on the fit result and  *)
(*            what it did                                                  *)
(***************************************************************************)
VARIABLES args, status, self, ssm, params, fit, call, pred

vars == <<args, status, self, ssm, params, fit, call, pred>>

NoModel == [k_states |-> 0]

NoRepresentation == [built |-> FALSE]

NoParams == [set |-> FALSE, v |-> <<>>]

\* The last call made on the model: its name and argument, the flags of an
\* update, its result (out) and, where the argument is itself the result of
\* an earlier call, that call's argument (from).
\* value: what a loglike call returned.
NoCall == [op |-> "none", arg |-> <<>>, transformed |-> FALSE,
           set_params |-> FALSE, out |-> <<>>, from |-> <<>>,
           value |-> [set |-> FALSE]]

\* The last call on the results object.  For predict/forecast: its arguments
\* (exog: [given, rows, cols], the shape of the array), the out-of-sample
\* count computed from end, the exception raised ([exc, line]), whether a
\* warning was emitted, whether the call was handed on to the filter's
\* predict, over which <<start, end>>, with which exog keyword and which
\* replacement matrices (kwargs), and the model rebuilt for the extended
\* sample.  For a reading of the information criteria: stats.
NoPrediction ==
    [ op |-> "none", start |-> 0, end |-> 0,
      exog |-> [given |-> FALSE, rows |-> 0, cols |-> 0],
      out_of_sample |-> 0, err |-> [exc |-> "none", line |-> 0],
      warned |-> FALSE, delegated |-> FALSE, horizon |-> <<>>,
      exog_passed |-> [given |-> FALSE, rows |-> 0, cols |-> 0],
      kwargs |-> {}, rebuilt |-> [built |-> FALSE],
      stats |-> [set |-> FALSE] ]

\* The frame of a call of fit: its arguments (method, bfgs_tune, whether
\* start_params was given, the caller's transformed, return_params), its
\* locals (transformed after line 131, start, the unconstrained x0, kwargs), the
\* pass of the optimizer it is in (1 or 2; passes: how many were started), the
\* start of that pass, the evaluations made in it, the [transformed, set_params]
\* flags of the evaluations, the optimizer's last result (xopt), the calls made
\* on the model in order (log), the last update among them and the value
\* returned.
IdleFit ==
    [ pc |-> "idle", method |-> "none", bfgs_tune |-> FALSE,
      start_given |-> FALSE, transformed_arg |-> FALSE, return_params |-> FALSE,
      transformed |-> FALSE, start |-> <<>>, x0 |-> <<>>,
      kwargs |-> [approx_grad |-> "absent", epsilon |-> "absent"],
      pass |-> 0, passes |-> 0, pass_start |-> <<>>, evals |-> 0,
      eval_flags |-> {}, xopt |-> <<>>, log |-> <<>>,
      last_update |-> [arg |-> <<>>, transformed |-> FALSE, set_params |-> FALSE],
      result |-> [kind |-> "none", params |-> <<>>] ]

Ok == [exc |-> "none", line |-> 0]

\* Variant of time_varying_regression_error that lets the request through.
time_varying_regression_mutant(a) == Ok

\* Lines 180-190: time-varying regression is refused.
time_varying_regression_error(a) ==
    IF a.time_varying_regression /\ a.mle_regression
    THEN [exc |-> "ValueError", line |-> 183]
    ELSE IF a.time_varying_regression
    THEN [exc |-> "NotImplementedError", line |-> 190]
    ELSE Ok

\* Variant of hamilton_representation_error that looks at d only.
hamilton_representation_mutant(a) ==
    IF a.hamilton_representation /\ ~(a.simple_differencing \/ a.d = 0)
    THEN [exc |-> "ValueError", line |-> 275]
    ELSE Ok

\* Lines 271-279: the Hamilton layout needs a state without differencing.
hamilton_representation_error(a) ==
    IF a.hamilton_representation
       /\ ~(a.simple_differencing \/ (a.d = a.D /\ a.D = 0))
    THEN [exc |-> "ValueError", line |-> 275]
    ELSE Ok

\* Model.__init__ (line 384) and the matrix setters of the representation
\* (lines 390-393) belong to the base classes.  Whether they take a model
\* without states, or a design with other than k_states entries, is left open.
base_class_may_reject(m) ==
    m.k_states = 0 \/ Len(initial_design(m).row) # m.k_states

\* The exception SARIMAX.__init__ raises for arguments a, as [exc, line];
\* accepted: the base classes take what they are handed.
construction_error(a, accepted) ==
    IF time_varying_regression_error(a) # Ok
    THEN time_varying_regression_error(a)
    ELSE IF hamilton_representation_error(a) # Ok
    THEN hamilton_representation_error(a)
    ELSE IF base_class_may_reject(Attributes(a)) /\ ~accepted
    THEN [exc |-> "ValueError", line |-> 384]
    ELSE IF transition_broadcast_error(Attributes(a))
    THEN [exc |-> "ValueError", line |-> 567]
    ELSE Ok

\* The model object and its representation when __init__ returns.
\* initialize() clears the manual-initialization flag (line 404);
\* initialize_stationary sets it when there is no diffuse state (lines 397-398,
\* 463).
constructed_model(m0) ==
    [ self |-> [x \in DOMAIN m0 \cup {"_manual_initialization"} |->
                   IF x = "_manual_initialization"
                   THEN m0.k_diffuse_states = 0 ELSE m0[x]],
      ssm |-> initial_representation(m0) ]

ConstructWith(err, built) ==
    /\ IF err.exc # "none"
       THEN /\ status' = [stage |-> "failed", exc |-> err.exc, line |-> err.line]
            /\ UNCHANGED <<self, ssm>>
       ELSE /\ status' = [stage |-> "constructed", exc |-> "none", line |-> 0]
            /\ self' = built.self
            /\ ssm' = built.ssm
    /\ params' = NoParams
    /\ call' = [NoCall EXCEPT !.op = "__init__"]
    /\ UNCHANGED <<args, pred, fit>>

\* SARIMAX(endog, exog, order, seasonal_order, trend, ...), lines 163-398.
Construct ==
    /\ status.stage = "new"
    /\ \E accepted \in BOOLEAN :
          ConstructWith(construction_error(args, accepted),
                        constructed_model(Attributes(args)))

\* The length of the vectors the optimizer works on: what start_params
\* concatenates (lines 777-787), one entry per consumed parameter.
ParamLen(m) == SegTotal(update_layout(m))

\* Variant of set_params_of that stores the vector whatever the flag.
set_params_mutant(cur, c, set_params) == [set |-> TRUE, v |-> c]

\* MLEModel.update, lines 418-419: the params attribute afterwards.
set_params_of(cur, c, set_params) ==
    IF set_params THEN [set |-> TRUE, v |-> c] ELSE cur

\* model.update(p, transformed, set_params) (SARIMAX.update, lines 1120-1339,
\* through MLEModel.update, mlemodel.py lines 387-420).
UpdateWith(op, p, transformed, set_params, c, u) ==
    /\ params' = set_params_of(params, c, set_params)
    /\ self' = u.self
    /\ ssm' = u.ssm
    /\ status' = [status EXCEPT !.exc = u.err.exc, !.line = u.err.line]
    /\ call' = [NoCall EXCEPT !.op = op, !.arg = p,
                              !.transformed = transformed,
                              !.set_params = set_params, !.out = c]

UpdateConstrained(op, p, transformed, set_params, c) ==
    UpdateWith(op, p, transformed, set_params, c, SARIMAX_update(self, ssm, c))

DoUpdate(op, p, transformed, set_params) ==
    UpdateConstrained(op, p, transformed, set_params,
                      MLEModel_update_params(self, p, transformed))

\* Values the callers' parameter vectors are drawn from.
BuildVals == {0 - 1, 2}

\* A caller's model.update(params) with the default flags.
Update ==
    /\ status.stage = "constructed"
    /\ fit.pc = "idle"
    /\ \E v \in BuildVals :
          DoUpdate("update", Rep(v, ParamLen(self)), TRUE, TRUE)
    /\ UNCHANGED <<args, pred, fit>>

\* All vectors of length n over the set S.
Vectors(n, S) == [1..n -> S]

\* Entries of the unconstrained vectors handed to transform_params.
TransformVals == {0 - 2, 3}

\* A caller's model.transform_params(x) (lines 971-1045).
TransformParams ==
    /\ status.stage = "constructed"
    /\ fit.pc = "idle"
    /\ \E x \in Vectors(ParamLen(self), TransformVals) :
          call' = [NoCall EXCEPT !.op = "transform_params", !.arg = x,
                                 !.out = transform_params(self, x)]
    /\ UNCHANGED <<args, pred, status, self, ssm, params, fit>>

\* model.untransform_params applied to what transform_params returned
\* (lines 1047-1118).
UntransformParams ==
    /\ status.stage = "constructed"
    /\ fit.pc = "idle"
    /\ call.op = "transform_params"
    /\ call' = [NoCall EXCEPT !.op = "untransform_params", !.arg = call.out,
                              !.out = untransform_params(self, call.out),
                              !.from = call.arg]
    /\ UNCHANGED <<args, pred, status, self, ssm, params, fit>>

(***************************************************************************)
(* 4.5 fit (mlemodel.py lines 67-178).  The optimizer (LikelihoodModel.fit *)
(* of the base package) is the environment: within a pass it evaluates the *)
(* objective at most MaxEvals times, at points of its choice, and returns  *)
(* a point of its choice.  A behaviour ends when fit returns or raises.    *)
(***************************************************************************)
Methods == {"lbfgs", "bfgs", "nm"}

\* Entries of the points the optimizer evaluates and returns.
FitVals == {1, 2}

EvalPoints(m) == {Rep(v, ParamLen(m)) : v \in FitVals}

\* A caller's start_params, and what SARIMAX.start_params (lines 688-787)
\* estimates from the data.
GivenStart(m) == Rep(4, ParamLen(m))

AutoStart(m) == Rep(16, ParamLen(m))

\* Lines 729-760: start_params raises when an estimated polynomial is not
\* stationary / invertible under enforcement; that depends on the data.
start_params_may_raise(m) ==
    \/ m.k_ar > 0 /\ m.enforce_stationarity
    \/ m.k_ma > 0 /\ m.enforce_invertibility
    \/ m.k_seasonal_ar > 0 /\ m.enforce_stationarity
    \/ m.k_seasonal_ma > 0 /\ m.enforce_invertibility

\* Variant of unconstrained_start that never untransforms.
unconstrained_start_mutant(m, start, transformed) == start

\* Lines 134-135: the optimizer's starting point.
unconstrained_start(m, start, transformed) ==
    IF transformed THEN untransform_params(m, start) ELSE start

\* Lines 137-139.
initial_kwargs(method) ==
    IF method = "lbfgs" \/ method = "bfgs"
    THEN [approx_grad |-> "True", epsilon |-> "1e-5"]
    ELSE [approx_grad |-> "absent", epsilon |-> "absent"]

\* Line 153: `bfgs_tune and method == 'lbfgs' or method == 'bfgs'`.
second_pass(bfgs_tune, method) ==
    (bfgs_tune /\ method = "lbfgs") \/ method = "bfgs"

\* Lines 144 and 156: fargs = (average_loglike, transformed, set_params).
fargs == [average_loglike |-> TRUE, transformed |-> FALSE, set_params |-> FALSE]

Raised(exc, line) == [status EXCEPT !.exc = exc, !.line = line]

\* fit(start_params, transformed, method, return_params, bfgs_tune) up to the
\* first call of the optimizer (lines 129-145).
FitBegin(method, bfgs_tune, given, transformed_arg, return_params, raises) ==
    LET transformed == IF given THEN transformed_arg ELSE TRUE
        start == IF given THEN GivenStart(self) ELSE AutoStart(self)
        x0 == unconstrained_start(self, start, transformed)
    IN  IF ~given /\ raises
        THEN /\ start_params_may_raise(self)
             /\ status' = Raised("ValueError", 730)
             /\ fit' = [IdleFit EXCEPT !.pc = "raised", !.method = method,
                           !.bfgs_tune = bfgs_tune, !.start_given = given,
                           !.transformed_arg = transformed_arg,
                           !.return_params = return_params]
        ELSE /\ status' = Raised("none", 0)
             /\ fit' = [IdleFit EXCEPT !.pc = "pass", !.method = method,
                           !.bfgs_tune = bfgs_tune, !.start_given = given,
                           !.transformed_arg = transformed_arg,
                           !.return_params = return_params,
                           !.transformed = transformed, !.start = start,
                           !.x0 = x0, !.kwargs = initial_kwargs(method),
                           !.pass = 1, !.passes = 1, !.pass_start = x0]

FitStart ==
    /\ status.stage = "constructed"
    /\ fit.pc = "idle"
    /\ \E method \in Methods, bfgs_tune \in BOOLEAN, given \in BOOLEAN,
          transformed_arg \in BOOLEAN, return_params \in BOOLEAN,
          raises \in BOOLEAN :
          FitBegin(method, bfgs_tune, given, transformed_arg, return_params, raises)
    /\ UNCHANGED <<args, pred, self, ssm, params, call>>

\* The frame after a call of update made by fit: the exception propagates.
AfterUpdate(f, entry, p, transformed, set_params, exc) ==
    [f EXCEPT !.pc = IF exc # "none" THEN "raised" ELSE @,
              !.log = Append(@, entry),
              !.last_update = [arg |-> p, transformed |-> transformed,
                               set_params |-> set_params]]

\* One objective evaluation by the optimizer: loglike(x, *fargs) (lines
\* 215-230), that is update(x, transformed, set_params) and a filter run.
OptimizerEval ==
    /\ fit.pc = "pass"
    /\ fit.evals < MaxEvals
    /\ \E x \in EvalPoints(self) :
          /\ DoUpdate("loglike", x, fargs.transformed, fargs.set_params)
          /\ fit' = [AfterUpdate(fit, "loglike", x, fargs.transformed,
                                 fargs.set_params, status'.exc)
                        EXCEPT !.evals = @ + 1,
                               !.eval_flags = @ \cup
                                   {[transformed |-> fargs.transformed,
                                     set_params |-> fargs.set_params]}]
    /\ UNCHANGED <<args, pred>>

\* The optimizer returns mlefit with mlefit.params = x; fit then starts the
\* second pass from x (lines 153-161) or goes on to line 166.
OptimizerReturn ==
    /\ fit.pc = "pass"
    /\ \E x \in EvalPoints(self) :
          fit' = IF fit.pass = 1 /\ second_pass(fit.bfgs_tune, fit.method)
                 THEN [fit EXCEPT !.pass = 2, !.passes = 2, !.pass_start = x,
                                  !.evals = 0, !.xopt = x,
                                  !.kwargs = [approx_grad |-> "False",
                                              epsilon |-> "absent"],
                                  !.log = Append(@, "minimize")]
                 ELSE [fit EXCEPT !.pc = "optimized", !.xopt = x,
                                  !.log = Append(@, "minimize")]
    /\ UNCHANGED <<args, pred, status, self, ssm, params, call>>

\* Variant of FinalUpdate that hands x* over as already transformed.
FinalUpdate_mutant ==
    /\ fit.pc = "optimized"
    /\ DoUpdate("update", fit.xopt, TRUE, TRUE)
    /\ fit' = [AfterUpdate(fit, "update", fit.xopt, FALSE, TRUE, status'.exc)
                  EXCEPT !.pc = IF @ = "raised" THEN @ ELSE "updated"]
    /\ UNCHANGED <<args, pred>>

\* Line 166: self.update(mlefit.params, transformed=False).
FinalUpdate ==
    /\ fit.pc = "optimized"
    /\ DoUpdate("update", fit.xopt, FALSE, TRUE)
    /\ fit' = [AfterUpdate(fit, "update", fit.xopt, FALSE, TRUE, status'.exc)
                  EXCEPT !.pc = IF @ = "raised" THEN @ ELSE "updated"]
    /\ UNCHANGED <<args, pred>>

\* Lines 169-178: the final filter run and the return value.
FinalFilter ==
    /\ fit.pc = "updated"
    /\ fit' = [fit EXCEPT !.pc = "returned", !.log = Append(@, "filter"),
                          !.result = [kind |-> IF fit.return_params
                                               THEN "params" ELSE "results",
                                      params |-> params.v]]
    /\ call' = [NoCall EXCEPT !.op = "filter"]
    /\ UNCHANGED <<args, pred, status, self, ssm, params>>

\* A caller's score(x) or hessian(x) with the defaults of lines 250-256 and
\* 278-284: loglike(., average_loglike=True, transformed=False,
\* set_params=False) at points around x.
ScoreDefaults == [average_loglike |-> TRUE, transformed |-> FALSE, set_params |-> FALSE]

Score ==
    /\ status.stage = "constructed"
    /\ fit.pc = "idle"
    /\ ParamLen(self) > 0
    /\ DoUpdate("score", Rep(1, ParamLen(self)), ScoreDefaults.transformed,
                ScoreDefaults.set_params)
    /\ UNCHANGED <<args, pred, fit>>

Hessian ==
    /\ status.stage = "constructed"
    /\ fit.pc = "idle"
    /\ ParamLen(self) > 0
    /\ DoUpdate("hessian", Rep(2, ParamLen(self)), ScoreDefaults.transformed,
                ScoreDefaults.set_params)
    /\ UNCHANGED <<args, pred, fit>>

(***************************************************************************)
(* Argument spaces.                                                        *)
(***************************************************************************)
Seasons == 2

ArOrders == {IntOrder(k) : k \in 0..MaxP} \cup {ListOrder(<<0, 1>>)}

MaOrders == {IntOrder(0), IntOrder(1)}

SeasonalOrders == {IntOrder(0), IntOrder(1)}

\* (P, D, Q, s): the default (0, 0, 0, 0) or any orders with s = Seasons.
SeasonalArgs ==
    {[P |-> IntOrder(0), D |-> 0, Q |-> IntOrder(0), s |-> 0]}
    \cup [P : SeasonalOrders, D : {0, 1}, Q : SeasonalOrders, s : {Seasons}]

ExogArgs ==
    {[has_exog |-> FALSE, exog_cols |-> 0]}
    \cup {[has_exog |-> TRUE, exog_cols |-> k] : k \in 1..MaxExog}

MkArgs(p, d, q, so, trend, ex, me, tvr, mle, sd, es, ei, ham) ==
    [ p |-> p, d |-> d, q |-> q, P |-> so.P, D |-> so.D, Q |-> so.Q, s |-> so.s,
      trend |-> trend, has_exog |-> ex.has_exog, exog_cols |-> ex.exog_cols,
      measurement_error |-> me, time_varying_regression |-> tvr,
      mle_regression |-> mle, simple_differencing |-> sd,
      enforce_stationarity |-> es, enforce_invertibility |-> ei,
      hamilton_representation |-> ham, nobs |-> NobsIn ]

\* Every combination of orders and flags that can construct, and the
\* time-varying regression requests (which never do) on the default orders.
ArgsBuild ==
    { MkArgs(p, d, q, so, trend, ex, me, FALSE, mle, sd, es, es, ham) :
        p \in ArOrders, d \in 0..MaxD, q \in MaOrders, so \in SeasonalArgs,
        trend \in {"n", "ct"}, ex \in ExogArgs, me \in BOOLEAN,
        mle \in BOOLEAN, sd \in BOOLEAN, es \in BOOLEAN, ham \in BOOLEAN }
    \cup
    { MkArgs(IntOrder(1), d, IntOrder(0), so, "n", ex, FALSE, TRUE, mle, sd,
             TRUE, TRUE, ham) :
        d \in 0..MaxD, so \in SeasonalArgs, ex \in ExogArgs,
        mle \in BOOLEAN, sd \in BOOLEAN, ham \in BOOLEAN }

InitWith(A) ==
    /\ args \in A
    /\ status = [stage |-> "new", exc |-> "none", line |-> 0]
    /\ self = NoModel
    /\ ssm = NoRepresentation
    /\ params = NoParams
    /\ fit = IdleFit
    /\ call = NoCall
    /\ pred = NoPrediction

(***************************************************************************)
(* SpecBuild: construction over the whole argument space, then updates.    *)
(***************************************************************************)
InitBuild == InitWith(ArgsBuild)

NextBuild == Construct \/ Update

SpecBuild == InitBuild /\ [][NextBuild]_vars

(***************************************************************************)
(* Properties of construction (checked under SpecBuild).                   *)
(***************************************************************************)
Constructed == status.stage = "constructed"

\* C1: every constructed model has k_states = order_component +
\* differencing_component + regression_component, where order_component is
\* max(k_ar + k_seasonal_ar, k_ma + k_seasonal_ma + 1), or 0 when the model has
\* neither autoregressive nor moving-average lags; differencing_component is
\* d + s*D unless simple_differencing; regression_component is k_exog when the
\* coefficients are carried in the state.
C1_KStatesIsSumOfComponents ==
    Constructed =>
        LET ar == self.k_ar + self.k_seasonal_ar
            ma == self.k_ma + self.k_seasonal_ma
            order_component == IF ar = 0 /\ ma = 0 THEN 0 ELSE Max(ar, ma + 1)
            differencing_component ==
                IF self.simple_differencing THEN 0 ELSE args.d + args.s * args.D
            regression_component ==
                IF self.state_regression THEN self.k_exog ELSE 0
        IN  self.k_states
              = order_component + differencing_component + regression_component

\* C2: every constructed model has k_params equal to the total length of the
\* segments that transform_params / untransform_params and update consume.
C2_KParamsIsSumOfSegments ==
    Constructed =>
        /\ self.k_params = SegTotal(update_layout(self))
        /\ self.k_params = SegTotal(transform_layout(self))

\* C3: in every constructed model, before and after any update, the design
\* has k_states state entries, the transition is k_states x k_states, the
\* selection is k_states x k_posdef, and k_states and k_posdef are the values
\* computed at construction.
C3_ShapesMatchDimensions ==
    Constructed =>
        /\ self.k_states = Attributes(args).k_states
        /\ self.k_posdef = Attributes(args).k_posdef
        /\ Len(ssm.design.row) = self.k_states
        /\ Len(ssm.transition) = self.k_states
        /\ \A i \in 1..Len(ssm.transition) : Len(ssm.transition[i]) = self.k_states
        /\ Len(ssm.selection) = self.k_states
        /\ \A i \in 1..Len(ssm.selection) : Len(ssm.selection[i]) = self.k_posdef

\* C5: a construction with time_varying_regression never succeeds: it ends
\* with ValueError when mle_regression is set too and NotImplementedError
\* otherwise, no representation is built, and every constructed model has
\* time_varying_regression = false.
C5_TimeVaryingRegressionRefused ==
    /\ (status.stage # "new" /\ args.time_varying_regression) =>
          /\ status.stage = "failed"
          /\ status.exc = IF args.mle_regression
                          THEN "ValueError" ELSE "NotImplementedError"
          /\ ssm = NoRepresentation
    /\ Constructed => ~self.time_varying_regression

C5_Witness ==
    /\ status.stage = "failed"
    /\ args.time_varying_regression /\ ~args.mle_regression
    /\ status.exc = "NotImplementedError"

\* C6: a construction with hamilton_representation succeeds only if
\* simple_differencing is set or d = D = 0, and ends with a ValueError
\* otherwise; no constructed Hamilton model has a differencing block.
C6_HamiltonNeedsNoDifferencing ==
    /\ (Constructed /\ args.hamilton_representation) =>
          (args.simple_differencing \/ (args.d = 0 /\ args.D = 0))
    /\ ( /\ status.stage # "new"
         /\ args.hamilton_representation /\ ~args.time_varying_regression
         /\ ~(args.simple_differencing \/ (args.d = 0 /\ args.D = 0)) ) =>
          (status.stage = "failed" /\ status.exc = "ValueError")
    /\ (Constructed /\ self.hamilton_representation) => diff_offset(self) = 0

C6_Witness ==
    /\ status.stage = "failed" /\ status.line = 275
    /\ args.hamilton_representation /\ ~args.simple_differencing
    /\ args.d = 0 /\ args.D = 1

(***************************************************************************)
(* SpecTransform: transform_params followed by untransform_params on       *)
(* unconstrained vectors with negative, zero and positive entries.         *)
(***************************************************************************)
OneLag == {IntOrder(0), IntOrder(1)}

NoSeasonal == [P |-> IntOrder(0), D |-> 0, Q |-> IntOrder(0), s |-> 0]

ArgsTransform ==
    { MkArgs(p, 0, q, NoSeasonal, trend, ex, me, FALSE, TRUE, FALSE, es, es, FALSE) :
        p \in OneLag, q \in OneLag, trend \in {"n", "c"},
        ex \in {e \in ExogArgs : e.exog_cols <= 1}, me \in BOOLEAN,
        es \in BOOLEAN }

InitTransform == InitWith(ArgsTransform)

NextTransform ==
    \/ Construct
    \/ TransformParams
    \/ UntransformParams

SpecTransform == InitTransform /\ [][NextTransform]_vars

\* The segments of the transform of the given kind, as index pairs <<n, i>>:
\* entry i of segment n.
EntriesOfKind(kind) ==
    LET layout == transform_layout(self)
    IN  {e \in (1..Len(layout)) \X (1..ParamLen(self)) :
            layout[e[1]].kind = kind /\ e[2] <= layout[e[1]].len}

RoundTripEntry(e) == Segment(transform_layout(self), call.out, e[1])[e[2]]

OriginalEntry(e) == Segment(transform_layout(self), call.from, e[1])[e[2]]

\* C4 (as stated): untransform_params(transform_params(x)) equals x exactly on
\* the identity segments and on the squared segments.
C4_RoundTripExact ==
    call.op = "untransform_params" =>
        \A e \in EntriesOfKind("identity") \cup EntriesOfKind("square") :
            RoundTripEntry(e) = OriginalEntry(e)

\* C4 (amended): the round trip returns x on the identity segments and the
\* absolute value |x| on the squared segments, hence x exactly when x >= 0.
C4_RoundTripUpToSign ==
    call.op = "untransform_params" =>
        /\ \A e \in EntriesOfKind("identity") :
              RoundTripEntry(e) = OriginalEntry(e)
        /\ \A e \in EntriesOfKind("square") :
              RoundTripEntry(e) = IF OriginalEntry(e) >= 0
                                  THEN OriginalEntry(e) ELSE 0 - OriginalEntry(e)

C4_Witness ==
    /\ call.op = "untransform_params"
    /\ \E e \in EntriesOfKind("square") :
          OriginalEntry(e) < 0 /\ RoundTripEntry(e) = 0 - OriginalEntry(e)
    /\ \E e \in EntriesOfKind("identity") :
          OriginalEntry(e) < 0 /\ RoundTripEntry(e) = OriginalEntry(e)

(***************************************************************************)
(* SpecFit: updates, score and hessian calls, then one call of fit.        *)
(***************************************************************************)
\* An AR(1) with enforced stationarity, an AR(1) with constant and
\* measurement error without enforcement, an MA(1), and a constant alone
\* (a model without states, whose update raises at line 1253).
FitModels ==
    { [p |-> 1, q |-> 0, trend |-> "n", me |-> FALSE, es |-> TRUE],
      [p |-> 1, q |-> 0, trend |-> "c", me |-> TRUE, es |-> FALSE],
      [p |-> 0, q |-> 1, trend |-> "n", me |-> FALSE, es |-> TRUE],
      [p |-> 0, q |-> 0, trend |-> "c", me |-> FALSE, es |-> TRUE] }

ArgsFit ==
    { MkArgs(IntOrder(o.p), 0, IntOrder(o.q), NoSeasonal, o.trend,
             [has_exog |-> FALSE, exog_cols |-> 0],
             o.me, FALSE, TRUE, FALSE, o.es, o.es, FALSE) : o \in FitModels }

InitFit == InitWith(ArgsFit)

NextFit ==
    \/ Construct
    \/ Update
    \/ Score
    \/ Hessian
    \/ FitStart
    \/ OptimizerEval
    \/ OptimizerReturn
    \/ FinalUpdate
    \/ FinalFilter

SpecFit == InitFit /\ [][NextFit]_vars

(***************************************************************************)
(* Properties of fit (checked under SpecFit).                              *)
(***************************************************************************)
PastOptimizer == fit.pc \in {"optimized", "updated", "returned"}

\* C7: fit runs a second minimization pass, started from the first pass's
\* optimum with approx_grad disabled, if and only if bfgs_tune is set and the
\* method is 'bfgs' or 'lbfgs'; without bfgs_tune it runs exactly one pass,
\* whatever the method.
C7_SecondPassIffTuned ==
    /\ PastOptimizer =>
          /\ fit.passes = 2 <=>
                (fit.bfgs_tune /\ fit.method \in {"bfgs", "lbfgs"})
          /\ ~fit.bfgs_tune => fit.passes = 1
    /\ (fit.pc = "pass" /\ fit.pass = 2) =>
          /\ fit.pass_start = fit.xopt
          /\ fit.kwargs.approx_grad = "False"

\* C8: when fit returns, the last update made on the model is
\* update(x*, transformed=False) for the optimizer's final result x*; it is
\* the only call between the end of the last pass and the final filter run;
\* model.params is transform_params(x*), which is also the value returned.
C8_FinalUpdateThenFilter ==
    fit.pc = "returned" =>
        LET n == Len(fit.log)
        IN  /\ fit.last_update
                 = [arg |-> fit.xopt, transformed |-> FALSE, set_params |-> TRUE]
            /\ n >= 3
            /\ fit.log[n] = "filter"
            /\ fit.log[n - 1] = "update"
            /\ fit.log[n - 2] = "minimize"
            /\ \A i \in 1..(n - 2) : fit.log[i] \in {"loglike", "minimize"}
            /\ params = [set |-> TRUE, v |-> transform_params(self, fit.xopt)]
            /\ fit.result.params = transform_params(self, fit.xopt)
            /\ fit.return_params => fit.result.kind = "params"

C8_Witness ==
    /\ fit.pc = "returned"
    /\ fit.return_params
    /\ fit.passes = 2
    /\ fit.evals > 0
    /\ fit.xopt # transform_params(self, fit.xopt)
    /\ fit.result.params = transform_params(self, fit.xopt)

\* C9: the optimizer works in unconstrained coordinates: x0 is
\* untransform_params(start) when the start is constrained, which is always
\* so for an automatic start (the caller's transformed is overridden to
\* true); a caller's start with transformed=false is passed unchanged; and
\* every objective evaluation of both passes uses transformed=False.
C9_OptimizerSeesUnconstrained ==
    fit.pc \in {"pass", "optimized", "updated", "returned"} =>
        /\ ~fit.start_given => fit.transformed
        /\ fit.start_given => fit.transformed = fit.transformed_arg
        /\ fit.x0 = IF fit.start_given /\ ~fit.transformed_arg
                    THEN fit.start
                    ELSE untransform_params(self, fit.start)
        /\ \A f \in fit.eval_flags : ~f.transformed

C9_Witness ==
    /\ fit.pc = "pass" /\ fit.pass = 2 /\ fit.evals > 0
    /\ ~fit.start_given /\ ~fit.transformed_arg
    /\ fit.x0 = untransform_params(self, fit.start)
    /\ fit.x0 # fit.start
    /\ fit.eval_flags = {[transformed |-> FALSE, set_params |-> FALSE]}

\* C10: model.params changes only in an update with set_params=true; an
\* objective evaluation by the optimizer and a score or hessian call with the
\* default arguments leave it as it was.
C10_ParamsChangeOnlyBySetParams ==
    [][ /\ params' # params => (call' # call /\ call'.set_params)
        /\ (call' # call /\ call'.op \in {"loglike", "score", "hessian"}) =>
              params' = params ]_vars

\* ... although the call rewrites the representation: after a score call
\* the state covariance holds the variance of the evaluated point, not the
\* one of model.params.
C10_Witness ==
    /\ call.op = "score"
    /\ params.set
    /\ self.k_posdef > 0
    /\ ssm.state_cov[1] = call.out[Len(call.out)]
    /\ ssm.state_cov[1] # params.v[Len(params.v)]

(***************************************************************************)
(* 4.4 (continued)  The caller's initialization calls (lines 454-464).     *)
(* Each sets the manual flag and hands over to the base Model, which keeps *)
(* what it is given.                                                       *)
(***************************************************************************)
\* Variant of initialize_known that leaves the flag as it was.
initialize_known_mutant(m, rep, initial_state, initial_state_cov) ==
    [ self |-> m,
      ssm |-> [rep EXCEPT !.initialization =
                  [kind |-> "known", lyapunov |-> FALSE, of |-> <<>>,
                   given |-> <<initial_state, initial_state_cov>>]] ]

\* Lines 454-456, as [self, ssm].
initialize_known(m, rep, initial_state, initial_state_cov) ==
    [ self |-> [m EXCEPT !._manual_initialization = TRUE],
      ssm |-> [rep EXCEPT !.initialization =
                  [kind |-> "known", lyapunov |-> FALSE, of |-> <<>>,
                   given |-> <<initial_state, initial_state_cov>>]] ]

\* Lines 458-460, as [self, ssm].
initialize_approximate_diffuse(m, rep) ==
    [ self |-> [m EXCEPT !._manual_initialization = TRUE],
      ssm |-> [rep EXCEPT !.initialization =
                  [kind |-> "approximate_diffuse", lyapunov |-> FALSE,
                   of |-> <<>>, given |-> <<>>]] ]

\* Lines 462-464, as [self, ssm].
initialize_stationary(m, rep) ==
    [ self |-> [m EXCEPT !._manual_initialization = TRUE],
      ssm |-> [rep EXCEPT !.initialization =
                  [kind |-> "stationary", lyapunov |-> FALSE,
                   of |-> <<>>, given |-> <<>>]] ]

\* A caller's initialization call op with arguments arg, leading to r.
InitializeWith(op, arg, r) ==
    /\ self' = r.self
    /\ ssm' = r.ssm
    /\ status' = [status EXCEPT !.exc = "none", !.line = 0]
    /\ call' = [NoCall EXCEPT !.op = op, !.arg = arg]
    /\ UNCHANGED <<args, pred, params, fit>>

\* Entries of the mean a caller supplies; the covariance is diagonal.
KnownVals == {5, 7, 9}

\* model.initialize_known(mean, cov).
InitializeKnown ==
    /\ status.stage = "constructed"
    /\ fit.pc = "idle"
    /\ \E v \in KnownVals :
          InitializeWith("initialize_known",
                         <<Rep(v, self.k_states), Rep(v + 1, self.k_states)>>,
                         initialize_known(self, ssm, Rep(v, self.k_states),
                                          Rep(v + 1, self.k_states)))

\* model.initialize_approximate_diffuse().
InitializeApproximateDiffuse ==
    /\ status.stage = "constructed"
    /\ fit.pc = "idle"
    /\ InitializeWith("initialize_approximate_diffuse", <<>>,
                      initialize_approximate_diffuse(self, ssm))

\* model.initialize_stationary().
InitializeStationary ==
    /\ status.stage = "constructed"
    /\ fit.pc = "idle"
    /\ InitializeWith("initialize_stationary", <<>>,
                      initialize_stationary(self, ssm))

(***************************************************************************)
(* SpecInit: construction, then updates and initialization calls in any    *)
(* order.                                                                  *)
(***************************************************************************)
\* An ARIMA(1,1,0), an ARIMA(1,1,1) and an ARIMA(0,1,1) with measurement
\* error (diffuse states), an AR(1) (none), and an ARIMA(1,1,0) without
\* enforcement.
InitModels ==
    { [p |-> 1, d |-> 1, q |-> 0, me |-> FALSE, es |-> TRUE],
      [p |-> 1, d |-> 1, q |-> 1, me |-> FALSE, es |-> TRUE],
      [p |-> 0, d |-> 1, q |-> 1, me |-> TRUE, es |-> TRUE],
      [p |-> 1, d |-> 0, q |-> 0, me |-> FALSE, es |-> TRUE],
      [p |-> 1, d |-> 1, q |-> 0, me |-> FALSE, es |-> FALSE] }

ArgsInit ==
    { MkArgs(IntOrder(o.p), o.d, IntOrder(o.q), NoSeasonal, "n",
             [has_exog |-> FALSE, exog_cols |-> 0],
             o.me, FALSE, TRUE, FALSE, o.es, o.es, FALSE) : o \in InitModels }

InitInit == InitWith(ArgsInit)

NextInit ==
    \/ Construct
    \/ Update
    \/ InitializeKnown
    \/ InitializeApproximateDiffuse
    \/ InitializeStationary

SpecInit == InitInit /\ [][NextInit]_vars

(***************************************************************************)
(* Properties of the initialization (checked under SpecInit and SpecBuild). *)
(***************************************************************************)
\* C11: initialize_known(mean, cov) marks the model manually initialized
\* and stores the supplied values; an update made while they are in place
\* does not re-run the initialization policy: the flag stays set and the
\* initial mean and covariance stay the supplied ones.
C11_KnownInitializationSurvivesUpdates ==
    [][ /\ (call' # call /\ call'.op = "initialize_known") =>
              /\ self'._manual_initialization
              /\ ssm'.initialization
                   = [kind |-> "known", lyapunov |-> FALSE, of |-> <<>>,
                      given |-> call'.arg]
        /\ (call' # call /\ call'.op = "update"
              /\ ssm.initialization.given # <<>>) =>
              /\ self'._manual_initialization
              /\ ssm'.initialization = ssm.initialization ]_vars

\* An update made after initialize_known on a model with diffuse states.
C11_Witness ==
    /\ call.op = "update"
    /\ params.set
    /\ ssm.state_cov[1] = call.out[Len(call.out)]
    /\ ssm.initialization.given = <<Rep(5, self.k_states), Rep(6, self.k_states)>>
    /\ self._manual_initialization
    /\ self.k_diffuse_states > 0

\* C12: on a model whose caller makes no initialization call (no such call
\* exists under SpecBuild) the manual flag is false after construction and
\* after every update, and every update re-runs the initialization policy:
\* the initial state distribution is the one derived from the parameters
\* just applied.
C12_PolicyRerunsOnEveryUpdate ==
    Constructed =>
        /\ ~self._manual_initialization
        /\ (call.op = "update" /\ status.exc = "none") =>
              ssm.initialization
                = [kind |-> "known", lyapunov |-> self._k_order > 0,
                   of |-> call.out, given |-> <<>>]

(***************************************************************************)
(* 4.6 Prediction (sarimax.py lines 1429-1494, mlemodel.py lines 559-661). *)
(***************************************************************************)
\* TimeSeriesModel._get_predict_end for an integer end: the part of the
\* horizon past the last observation is split off as out_of_sample.
get_predict_end(nobs, end) ==
    IF end > nobs - 1
    THEN [end |-> nobs - 1, out_of_sample |-> end - (nobs - 1)]
    ELSE [end |-> end, out_of_sample |-> 0]

\* Variant of needs_exog that looks at mle_regression only.
needs_exog_mutant(m, out_of_sample) ==
    out_of_sample > 0 /\ m.mle_regression

\* Line 1439: `_out_of_sample and self.mle_regression or self.state_regression`
\* (Python's `and` binds tighter than `or`).
needs_exog(m, out_of_sample) ==
    (out_of_sample > 0 /\ m.mle_regression) \/ m.state_regression

\* Lines 1452-1468: the arguments of the model built for the extended sample,
\* from the orders and flags stored on the result; a: the arguments of the
\* fitted model (orig_endog and orig_exog are its data).
predict_model_args(m, a, exog, out_of_sample) ==
    [ p |-> IntOrder(m.k_ar), d |-> m.k_diff, q |-> IntOrder(m.k_ma),
      P |-> IntOrder(m.k_seasonal_ar), D |-> m.k_seasonal_diff,
      Q |-> IntOrder(m.k_seasonal_ma), s |-> m.k_seasons,
      trend |-> a.trend, has_exog |-> TRUE, exog_cols |-> exog.cols,
      measurement_error |-> m.measurement_error,
      time_varying_regression |-> m.time_varying_regression,
      mle_regression |-> m.mle_regression,
      simple_differencing |-> m.simple_differencing,
      enforce_stationarity |-> m.enforce_stationarity,
      enforce_invertibility |-> m.enforce_invertibility,
      hamilton_representation |-> m.hamilton_representation,
      nobs |-> a.nobs + out_of_sample ]

\* Lines 1454-1469: SARIMAX(...) on those arguments, then update(self.params);
\* as [self, ssm, err].  The update reads past the end of a vector shorter
\* than the rebuilt model's layout.
predict_model(ra, p, accepted) ==
    IF construction_error(ra, accepted).exc # "none"
    THEN [self |-> NoModel, ssm |-> NoRepresentation,
          err |-> construction_error(ra, accepted)]
    ELSE IF ParamLen(constructed_model(Attributes(ra)).self) > Len(p)
    THEN [self |-> constructed_model(Attributes(ra)).self,
          ssm |-> constructed_model(Attributes(ra)).ssm,
          err |-> [exc |-> "IndexError", line |-> 1469]]
    ELSE SARIMAX_update(constructed_model(Attributes(ra)).self,
                        constructed_model(Attributes(ra)).ssm, p)

\* Lines 1473-1481: the matrices of the rebuilt model with a time axis.
time_varying_names(rep) ==
    {n \in {"design"} : rep.design.tv}
    \cup {n \in {"state_intercept"} : rep.state_intercept.tv}
    \cup {n \in {"obs_intercept"} :
            rep.obs_intercept.exog_beta # <<>> \/ rep.obs_intercept.trend # <<>>}

\* Lines 1486-1489, then MLEResults.predict, lines 601-611: the call handed
\* to the filter's predict, whose end is end + out_of_sample + 1.
delegate_predict(r, e, exog) ==
    [r EXCEPT !.delegated = TRUE,
              !.horizon = <<r.start, e.end + e.out_of_sample + 1>>,
              !.exog_passed = exog]

\* The regression branch of predict once exog is known to be well shaped
\* (lines 1452-1481); rb: the rebuilt model.
predict_extended(r, e, a, rb) ==
    IF rb.err.exc # "none"
    THEN [r EXCEPT !.err = rb.err]
    ELSE delegate_predict(
            [r EXCEPT !.rebuilt = rb.ssm, !.kwargs = time_varying_names(rb.ssm)],
            e,
            \* line 1453: exog is now orig_exog with the new rows appended
            [given |-> TRUE, rows |-> a.nobs + r.exog.rows, cols |-> r.exog.cols])

\* Variant of predict_plain that emits no warning.
predict_plain_mutant(r, e) == delegate_predict(r, e, r.exog)

\* Lines 1482-1489: no exogenous data is needed; a given exog draws a
\* warning and the call goes on to the filter.
predict_plain(r, e) ==
    delegate_predict([r EXCEPT !.warned = r.exog.given], e, r.exog)

\* SARIMAXResults.predict(start, end, exog) on the result of a fit of model
\* m (arguments a) with parameters p, lines 1429-1489; e is
\* get_predict_end(nobs, end).  An exception ends the call before anything is
\* handed to the filter.
predict_from(m, a, p, r, e, accepted) ==
    IF needs_exog(m, e.out_of_sample)
    THEN IF ~r.exog.given
         THEN [r EXCEPT !.err = [exc |-> "ValueError", line |-> 1441]]
         ELSE IF <<r.exog.rows, r.exog.cols>> # <<e.out_of_sample, m.k_exog>>
         THEN [r EXCEPT !.err = [exc |-> "ValueError", line |-> 1447]]
         ELSE predict_extended(r, e, a,
                 predict_model(predict_model_args(m, a, r.exog, e.out_of_sample),
                               p, accepted))
    ELSE predict_plain(r, e)

SARIMAXResults_predict(m, a, p, op, start, end, exog, accepted) ==
    predict_from(m, a, p,
                 [NoPrediction EXCEPT !.op = op, !.start = start, !.end = end,
                     !.exog = exog,
                     !.out_of_sample = get_predict_end(m.nobs, end).out_of_sample],
                 get_predict_end(m.nobs, end), accepted)

\* The longest horizon past the sample asked for.
MaxSteps == 2

\* The exog arguments tried for a horizon with k steps out of sample: none,
\* or an array of k or k + 1 rows.
PredictExogs(m, k) ==
    {[given |-> FALSE, rows |-> 0, cols |-> 0]}
    \cup {[given |-> TRUE, rows |-> r, cols |-> Max(m.k_exog, 1)] : r \in {k, k + 1}}

PredictWith(r) ==
    /\ pred' = r
    /\ UNCHANGED <<args, status, self, ssm, params, fit, call>>

\* results.predict(start=None, end, exog) on the value fit returned; the
\* first such call.
Predict ==
    /\ fit.pc = "returned"
    /\ fit.result.kind = "results"
    /\ pred.op = "none"
    /\ \E k \in 0..MaxSteps, accepted \in BOOLEAN :
          \E exog \in PredictExogs(self, k) :
             PredictWith(SARIMAXResults_predict(self, args, fit.result.params,
                            "predict", 0, self.nobs - 1 + k, exog, accepted))

\* results.forecast(steps, exog): SARIMAXResults.forecast (lines 1491-1494)
\* and MLEResults.forecast (line 660) call predict(start=nobs,
\* end=nobs+steps-1, exog=exog).
Forecast ==
    /\ fit.pc = "returned"
    /\ fit.result.kind = "results"
    /\ pred.op = "none"
    /\ \E steps \in 1..MaxSteps, accepted \in BOOLEAN :
          \E exog \in PredictExogs(self, steps) :
             PredictWith(SARIMAXResults_predict(self, args, fit.result.params,
                            "forecast", self.nobs, self.nobs + steps - 1, exog,
                            accepted))

(***************************************************************************)
(* SpecPredict: construction, one fit, then one prediction or forecast (a   *)
(* prediction changes neither the model nor the result).                   *)
(***************************************************************************)
\* An AR(1) alone, with one regressor estimated by maximum likelihood, with
\* one regressor estimated in the state, and an MA(1) with a constant.
PredictModels ==
    { [p |-> 1, q |-> 0, trend |-> "n", k_exog |-> 0, mle |-> TRUE],
      [p |-> 1, q |-> 0, trend |-> "n", k_exog |-> 1, mle |-> TRUE],
      [p |-> 1, q |-> 0, trend |-> "n", k_exog |-> 1, mle |-> FALSE],
      [p |-> 0, q |-> 1, trend |-> "c", k_exog |-> 0, mle |-> TRUE] }

ArgsPredict ==
    { MkArgs(IntOrder(o.p), 0, IntOrder(o.q), NoSeasonal, o.trend,
             [has_exog |-> o.k_exog > 0, exog_cols |-> o.k_exog],
             FALSE, FALSE, o.mle, FALSE, TRUE, TRUE, FALSE) : o \in PredictModels }

InitPredict == InitWith(ArgsPredict)

NextPredict ==
    \/ Construct
    \/ FitStart
    \/ OptimizerEval
    \/ OptimizerReturn
    \/ FinalUpdate
    \/ FinalFilter
    \/ Predict
    \/ Forecast

SpecPredict == InitPredict /\ [][NextPredict]_vars

(***************************************************************************)
(* Properties of prediction (checked under SpecPredict).                   *)
(***************************************************************************)
\* C13: on the result of a fit of a model with a regression component
\* (mle_regression or state_regression), predict or forecast over a horizon
\* that extends beyond the sample with exog=None raises the ValueError of
\* line 1441 (exogenous values required) and hands nothing to the filter.
C13_OutOfSampleNeedsExog ==
    (/\ pred.op \in {"predict", "forecast"}
     /\ self.mle_regression \/ self.state_regression
     /\ pred.end > self.nobs - 1
     /\ ~pred.exog.given) =>
        /\ pred.err = [exc |-> "ValueError", line |-> 1441]
        /\ ~pred.delegated
        /\ pred.horizon = <<>>

\* forecast(steps=MaxSteps) without exog on a model whose regression
\* coefficients are estimated by maximum likelihood.
C13_Witness ==
    /\ pred.op = "forecast"
    /\ self.mle_regression
    /\ self.k_exog > 0
    /\ pred.end = self.nobs + MaxSteps - 1
    /\ pred.out_of_sample = MaxSteps
    /\ ~pred.exog.given
    /\ pred.err.exc = "ValueError"

ExogCols == {0, 1, 2}

ArgsExog ==
    { MkArgs(p, d, q, so, trend,
             [has_exog |-> k > 0, exog_cols |-> k],
             me, FALSE, mle, FALSE, TRUE, TRUE, FALSE) :
        p \in OneLag, d \in {0, 1}, q \in OneLag,
        so \in {NoSeasonal,
                [P |-> IntOrder(1), D |-> 0, Q |-> IntOrder(1), s |-> 2]},
        trend \in {"n", "ct"}, k \in ExogCols, me \in BOOLEAN,
        mle \in BOOLEAN }

InitExog == InitWith(ArgsExog)

NextExog == Construct \/ Update

SpecExog == InitExog /\ [][NextExog]_vars

\* The same arguments with exog=None.
WithoutExog(a) == [a EXCEPT !.has_exog = FALSE, !.exog_cols = 0]

\* C15: without time-varying regression, a model constructed with
\* mle_regression=true and k exogenous columns has a k_params exactly k larger
\* than the model of the same arguments with exog=None; with
\* mle_regression=false the columns add no regression coefficient to
\* k_params: it differs from the one without exog only by the measurement
\* variance, where a regression without ARMA terms forces a measurement
\* error (lines 314-316).  (Compared where the arguments without exog
\* construct a model too.)
C15_ExogAddsItsColumns ==
    (/\ Constructed
     /\ args.has_exog
     /\ ~args.time_varying_regression
     /\ construction_error(WithoutExog(args), TRUE) = Ok) =>
        /\ args.mle_regression =>
              self.k_params
                = Attributes(WithoutExog(args)).k_params + args.exog_cols
        /\ ~args.mle_regression =>
              self.k_params
                = Attributes(WithoutExog(args)).k_params
                  + (IF self.measurement_error /\ ~args.measurement_error
                     THEN 1 ELSE 0)

\* A model with two columns estimated by maximum likelihood, after an update.
C15_Witness ==
    /\ Constructed
    /\ call.op = "update"
    /\ args.mle_regression /\ self.mle_regression
    /\ args.exog_cols = 2
    /\ construction_error(WithoutExog(args), TRUE) = Ok
    /\ self.k_params = Attributes(WithoutExog(args)).k_params + 2

(***************************************************************************)
(* SpecDiff: construction with and without simple differencing, for        *)
(* seasonal periods 2 and 4, then updates.                                 *)
(***************************************************************************)
SeasonalDiffArgs ==
    { NoSeasonal,
      [P |-> IntOrder(0), D |-> 1, Q |-> IntOrder(1), s |-> 4],
      [P |-> IntOrder(1), D |-> 1, Q |-> IntOrder(0), s |-> 2] }

ArgsDiff ==
    { MkArgs(p, d, q, so, "n", [has_exog |-> FALSE, exog_cols |-> 0],
             FALSE, FALSE, TRUE, sd, TRUE, TRUE, ham) :
        p \in OneLag, d \in {0, 1, 2}, q \in OneLag, so \in SeasonalDiffArgs,
        sd \in BOOLEAN, ham \in BOOLEAN }

InitDiff == InitWith(ArgsDiff)

NextDiff == Construct \/ Update

SpecDiff == InitDiff /\ [][NextDiff]_vars

\* C16: a model constructed with simple_differencing=true and d + D > 0
\* has nobs = len(endog) - (d + s*D), internal orders _k_diff and
\* _k_seasonal_diff equal to zero, public orders k_diff = d and
\* k_seasonal_diff = D, and a state vector without differencing component
\* (k_states = _k_order here, the models having no regression states).
C16_SimpleDifferencing ==
    (Constructed /\ args.simple_differencing /\ args.d + args.D > 0) =>
        /\ self.nobs = args.nobs - (args.d + args.s * args.D)
        /\ self._k_diff = 0
        /\ self._k_seasonal_diff = 0
        /\ self.k_diff = args.d
        /\ self.k_seasonal_diff = args.D
        /\ self.k_states
             = self._k_order + (IF self.state_regression THEN self.k_exog ELSE 0)
        /\ Len(ssm.transition) = self._k_order

\* seasonal_order=(0,1,1,4) with simple differencing: four observations
\* fewer, after an update.
C16_Witness ==
    /\ Constructed
    /\ call.op = "update"
    /\ args.simple_differencing
    /\ args.D = 1 /\ args.s = 4 /\ args.d = 0
    /\ self.k_seasonal_ma = 4
    /\ self.nobs = args.nobs - 4
    /\ self._k_seasonal_diff = 0
    /\ self.k_seasonal_diff = 1

(***************************************************************************)
(* SpecPoly: construction over integer and explicit lag specifications for *)
(* the four lag polynomials, then updates.                                 *)
(***************************************************************************)
PolyOrders ==
    { IntOrder(0), IntOrder(1), IntOrder(2),
      ListOrder(<<0, 1>>), ListOrder(<<1, 0, 1>>) }

SeasonalPolyArgs ==
    {NoSeasonal}
    \cup [P : {IntOrder(0), IntOrder(2), ListOrder(<<0, 1>>)}, D : {0},
          Q : {IntOrder(1), ListOrder(<<1, 0>>)}, s : {2, 3}]

ArgsPoly ==
    { MkArgs(p, 0, q, so, "n", [has_exog |-> FALSE, exog_cols |-> 0],
             FALSE, FALSE, TRUE, FALSE, TRUE, TRUE, ham) :
        p \in PolyOrders, q \in {IntOrder(0), IntOrder(2), ListOrder(<<0, 1>>)},
        so \in SeasonalPolyArgs, ham \in BOOLEAN }

InitPoly == InitWith(ArgsPoly)

NextPoly == Construct \/ Update

SpecPoly == InitPoly /\ [][NextPoly]_vars

\* The lags an order specification asks for, and how many lags it spans.
RequestedLags(o) ==
    IF o.isint THEN 1..o.n ELSE {i \in 1..Len(o.lags) : o.lags[i] = 1}

RequestedSpan(o) == IF o.isint THEN o.n ELSE Len(o.lags)

\* poly is the inclusion vector of the lags L over 0..span: the constant
\* entry is 1 and entry j is 1 for j in L and 0 otherwise.
IsInclusionVector(poly, L, span) ==
    /\ Len(poly) = span + 1
    /\ poly[1] = 1
    /\ \A j \in 1..span : poly[j + 1] = IF j \in L THEN 1 ELSE 0

SeasonalLags(o, s) == {s * i : i \in RequestedLags(o)}

\* C17: when the constructor returns, each lag polynomial is the inclusion
\* vector of the requested lags (1..k for a count k, the listed lags for an
\* explicit list; multiplied by s for the seasonal polynomials), and at all
\* times k_* is the degree of the vector and k_*_params the number of
\* requested lags.
C17_LagPolynomials ==
    /\ (Constructed /\ call.op = "__init__") =>
          /\ IsInclusionVector(self.polynomial_ar, RequestedLags(args.p),
                               RequestedSpan(args.p))
          /\ IsInclusionVector(self.polynomial_ma, RequestedLags(args.q),
                               RequestedSpan(args.q))
          /\ IsInclusionVector(self.polynomial_seasonal_ar,
                               SeasonalLags(args.P, args.s),
                               args.s * RequestedSpan(args.P))
          /\ IsInclusionVector(self.polynomial_seasonal_ma,
                               SeasonalLags(args.Q, args.s),
                               args.s * RequestedSpan(args.Q))
    /\ Constructed =>
          /\ self.k_ar = Len(self.polynomial_ar) - 1
          /\ self.k_ma = Len(self.polynomial_ma) - 1
          /\ self.k_seasonal_ar = Len(self.polynomial_seasonal_ar) - 1
          /\ self.k_seasonal_ma = Len(self.polynomial_seasonal_ma) - 1
          /\ self.k_ar = RequestedSpan(args.p)
          /\ self.k_seasonal_ma = args.s * RequestedSpan(args.Q)
          /\ self.k_ar_params = Cardinality(RequestedLags(args.p))
          /\ self.k_ma_params = Cardinality(RequestedLags(args.q))
          /\ self.k_seasonal_ar_params = Cardinality(RequestedLags(args.P))
          /\ self.k_seasonal_ma_params = Cardinality(RequestedLags(args.Q))

\* AR lags {1, 3} and seasonal AR lag {2s} with s = 3, both given as lists.
C17_Witness ==
    /\ Constructed
    /\ call.op = "__init__"
    /\ args.p = ListOrder(<<1, 0, 1>>)
    /\ args.P = ListOrder(<<0, 1>>)
    /\ args.s = 3
    /\ self.polynomial_ar = <<1, 1, 0, 1>>
    /\ self.polynomial_seasonal_ar = <<1, 0, 0, 0, 0, 0, 1>>
    /\ self.k_ar = 3 /\ self.k_ar_params = 2
    /\ self.k_seasonal_ar = 6 /\ self.k_seasonal_ar_params = 1

(***************************************************************************)
(* 4.5 (continued)  A caller's loglike (mlemodel.py lines 180-230).  The   *)
(* filter's log-likelihood is kept symbolically: `of` is the               *)
(* representation it is computed from, `burn` the number of leading        *)
(* observations left out, `divisor` what the sum is divided by.            *)
(***************************************************************************)
\* Variant of loglike_value that averages over the observations after the
\* burn-in.
loglike_value_mutant(m, rep, average_loglike) ==
    [ set |-> TRUE, average_loglike |-> average_loglike, of |-> rep,
      burn |-> m.loglikelihood_burn,
      divisor |-> IF average_loglike THEN m.nobs - m.loglikelihood_burn ELSE 1 ]

\* Lines 223-230: the value returned.
loglike_value(m, rep, average_loglike) ==
    [ set |-> TRUE, average_loglike |-> average_loglike, of |-> rep,
      burn |-> m.loglikelihood_burn,
      divisor |-> IF average_loglike THEN m.nobs ELSE 1 ]

\* loglike(p, average_loglike) with transformed and set_params at their
\* defaults; c: the constrained vector, u: the outcome of the update.
LoglikeWith(p, average_loglike, c, u) ==
    /\ params' = set_params_of(params, c, TRUE)
    /\ self' = u.self
    /\ ssm' = u.ssm
    /\ status' = [status EXCEPT !.exc = u.err.exc, !.line = u.err.line]
    /\ call' = [NoCall EXCEPT
                  !.op = "loglike", !.arg = p, !.transformed = TRUE,
                  !.set_params = TRUE, !.out = c,
                  !.value = IF u.err.exc = "none"
                            THEN loglike_value(u.self, u.ssm, average_loglike)
                            ELSE [set |-> FALSE]]
    /\ UNCHANGED <<args, pred, fit>>

LoglikeAt(p, average_loglike, c) ==
    LoglikeWith(p, average_loglike, c, SARIMAX_update(self, ssm, c))

Loglike ==
    /\ status.stage = "constructed"
    /\ fit.pc = "idle"
    /\ \E v \in BuildVals, average_loglike \in BOOLEAN :
          LoglikeAt(Rep(v, ParamLen(self)), average_loglike,
                    MLEModel_update_params(self, Rep(v, ParamLen(self)), TRUE))

(***************************************************************************)
(* SpecLoglike: construction, then updates and loglike calls.              *)
(***************************************************************************)
ArgsLoglike ==
    { MkArgs(p, d, q, NoSeasonal, "n", [has_exog |-> FALSE, exog_cols |-> 0],
             me, FALSE, TRUE, sd, es, es, FALSE) :
        p \in OneLag, d \in {0, 1}, q \in OneLag, me \in BOOLEAN,
        sd \in BOOLEAN, es \in BOOLEAN }

InitLoglike == InitWith(ArgsLoglike)

NextLoglike == Construct \/ Update \/ Loglike

SpecLoglike == InitLoglike /\ [][NextLoglike]_vars

\* The last call and the one before it are loglike calls at the same
\* parameters, one averaged and one not.
LoglikePair(avg, sum) ==
    /\ avg.op = "loglike" /\ sum.op = "loglike"
    /\ avg.value.set /\ sum.value.set
    /\ avg.arg = sum.arg
    /\ avg.value.average_loglike /\ ~sum.value.average_loglike

\* avg is sum divided by nobs: the same filter output, divided by the
\* model's number of observations and by nothing.
AverageOfSum(avg, sum, nobs) ==
    /\ avg.value.of = sum.value.of
    /\ avg.value.burn = sum.value.burn
    /\ avg.value.divisor = nobs
    /\ sum.value.divisor = 1

\* C18: of two successive loglike calls at the same parameters, one with
\* average_loglike=True and one without, the first returns the value of the
\* second divided by nobs, the model's number of observations, whatever the
\* burn count.
C18_AverageIsSumOverNobs ==
    [][ /\ LoglikePair(call, call') => AverageOfSum(call, call', self'.nobs)
        /\ LoglikePair(call', call) => AverageOfSum(call', call, self'.nobs) ]_vars

\* An averaged loglike on a model whose first observation is burnt.
C18_Witness ==
    /\ call.op = "loglike"
    /\ call.value.set
    /\ call.value.average_loglike
    /\ call.value.burn > 0
    /\ call.value.divisor = args.nobs
    /\ ~self.enforce_stationarity
    /\ ssm.initialization.of # call.out

(***************************************************************************)
(* 4.7 Information criteria (mlemodel.py lines 509-515), in thousandths.   *)
(***************************************************************************)
\* numpy.log on 1..16, in thousandths, rounded down.
LnMilli(n) ==
    << 0, 693, 1098, 1386, 1609, 1791, 1945, 2079,
       2197, 2302, 2397, 2484, 2564, 2639, 2708, 2772 >>[n]

\* Variant of aic with a penalty of three per parameter.
aic_mutant(llf, k) == (0 - 2) * llf * 1000 + 3 * k * 1000

\* Line 511: -2*llf + 2*params.shape[0].
aic(llf, k) == (0 - 2) * llf * 1000 + 2 * k * 1000

\* Line 515: -2*llf + params.shape[0]*log(nobs).
bic(llf, k, nobs) == (0 - 2) * llf * 1000 + k * LnMilli(nobs)

\* What a reading of aic and bic finds on a result with log-likelihood llf,
\* k parameters and nobs observations.
criteria(llf, k, nobs) ==
    [ set |-> TRUE, llf |-> llf, k |-> k, nobs |-> nobs,
      aic |-> aic(llf, k), bic |-> bic(llf, k, nobs) ]

\* Values of the log-likelihood the filter may have returned.
LlfVals == {0 - 30, 0, 25}

\* results.aic and results.bic on the value fit returned.
InformationCriteria ==
    /\ fit.pc = "returned"
    /\ fit.result.kind = "results"
    /\ pred.op = "none"
    /\ \E llf \in LlfVals :
          pred' = [NoPrediction EXCEPT
                     !.op = "aic_bic",
                     !.stats = criteria(llf, Len(fit.result.params), self.nobs)]
    /\ UNCHANGED <<args, status, self, ssm, params, fit, call>>

(***************************************************************************)
(* SpecCriteria: construction, one fit, then a reading of aic and bic.     *)
(***************************************************************************)
\* An AR(1) on the whole sample, and on the sample less s = 4 and less
\* 1 + 4 observations taken by simple differencing.
CriteriaModels ==
    { [d |-> 0, so |-> NoSeasonal],
      [d |-> 0, so |-> [P |-> IntOrder(0), D |-> 1, Q |-> IntOrder(0), s |-> 4]],
      [d |-> 1, so |-> [P |-> IntOrder(0), D |-> 1, Q |-> IntOrder(0), s |-> 4]] }

ArgsCriteria ==
    { MkArgs(IntOrder(1), o.d, IntOrder(0), o.so, "n",
             [has_exog |-> FALSE, exog_cols |-> 0],
             FALSE, FALSE, TRUE, TRUE, TRUE, TRUE, FALSE) : o \in CriteriaModels }

InitCriteria == InitWith(ArgsCriteria)

NextCriteria ==
    \/ Construct
    \/ FitStart
    \/ OptimizerEval
    \/ OptimizerReturn
    \/ FinalUpdate
    \/ FinalFilter
    \/ InformationCriteria

SpecCriteria == InitCriteria /\ [][NextCriteria]_vars

\* nobs > e^2 = 7.389...
AboveESquared(nobs) == 1000 * nobs > 7389

\* C19: on every fit result AIC = -2*llf + 2*k and BIC = -2*llf + k*ln(nobs),
\* k being the length of the fitted parameter vector and nobs the model's
\* number of observations, and AIC < BIC whenever nobs > e^2.
C19_AicBelowBic ==
    pred.op = "aic_bic" =>
        /\ pred.stats.k = Len(fit.result.params)
        /\ pred.stats.nobs = self.nobs
        /\ pred.stats.aic = 2000 * pred.stats.k - 2000 * pred.stats.llf
        /\ pred.stats.bic
             = pred.stats.k * LnMilli(pred.stats.nobs) - 2000 * pred.stats.llf
        /\ AboveESquared(pred.stats.nobs) => pred.stats.aic < pred.stats.bic

\* A result on eight observations, the first count above e^2, with a
\* positive log-likelihood.
C19_Witness ==
    /\ pred.op = "aic_bic"
    /\ pred.stats.nobs = args.nobs - 4
    /\ AboveESquared(pred.stats.nobs)
    /\ pred.stats.k = 2
    /\ pred.stats.llf = 25
    /\ pred.stats.aic < pred.stats.bic


(***************************************************************************)
(* 4.3 (continued) The stationarity transform in exact arithmetic.         *)
(*                                                                         *)
(* Where the location of the roots matters the reals are rationals         *)
(* <<numerator, denominator>> with a positive denominator, kept in lowest  *)
(* terms.  The squashing function x / sqrt(1 + x^2) of                     *)
(* tools.constrain_stationary_univariate is evaluated exactly on the       *)
(* inputs a/b for which a^2 + b^2 is a perfect square: a/b |-> a/c with    *)
(* c^2 = a^2 + b^2.                                                        *)
(***************************************************************************)
Abs(x) == IF x >= 0 THEN x ELSE 0 - x

RECURSIVE Gcd(_, _)
Gcd(a, b) == IF b = 0 THEN a ELSE Gcd(b, a % b)

Rat(n, d) == LET g == Gcd(Abs(n), d) IN <<n \div g, d \div g>>

RatAdd(x, y) == Rat(x[1] * y[2] + y[1] * x[2], x[2] * y[2])

RatMul(x, y) == Rat(x[1] * y[1], x[2] * y[2])

RatNeg(s) == [i \in 1..Len(s) |-> <<0 - s[i][1], s[i][2]>>]

Hypot(a, b) == CHOOSE c \in 0..(Abs(a) + b) : c * c = a * a + b * b

squash_exact(x) == Rat(x[1], Hypot(x[1], x[2]))

RECURSIVE levinson_exact(_, _)
levinson_exact(r, k) ==
    IF k = 0 THEN <<>>
    ELSE LET y == levinson_exact(r, k - 1)
         IN  [i \in 1..k |->
                 IF i = k THEN r[k] ELSE RatAdd(y[i], RatMul(r[k], y[k - i]))]

constrain_stationary_exact(unconstrained) ==
    RatNeg(levinson_exact(
               [i \in 1..Len(unconstrained) |-> squash_exact(unconstrained[i])],
               Len(unconstrained)))

\* One segment of the transform, by kind.
constrain_segment_exact(kind, seg) ==
    CASE kind = "identity"   -> seg
      [] kind = "stationary" -> constrain_stationary_exact(seg)
      [] kind = "square"     -> [i \in 1..Len(seg) |-> RatMul(seg[i], seg[i])]

\* Lines 971-1045 on rational entries.
transform_params_exact(m, unconstrained) ==
    LET layout == transform_layout(m)
        body == Concat([n \in 1..Len(layout) |->
                    constrain_segment_exact(layout[n].kind,
                                            Segment(layout, unconstrained, n))])
    IN  body \o Rep(<<0, 1>>, Len(unconstrained) - Len(body))

\* Lines 1167-1208: the four lag polynomials update builds from a constrained
\* vector p, with rational coefficients.
polynomials_exact(m, p) ==
    LET lay == update_layout(m)
        one(poly) == [j \in 1..Len(poly) |-> <<poly[j], 1>>]
    IN  [ polynomial_ar |->
              IF m.k_ar > 0
              THEN SetAt(one(m.polynomial_ar), m._polynomial_ar_idx,
                         RatNeg(Segment(lay, p, SegIndex(lay, "ar"))))
              ELSE one(m.polynomial_ar),
          polynomial_ma |->
              IF m.k_ma > 0
              THEN SetAt(one(m.polynomial_ma), m._polynomial_ma_idx,
                         Segment(lay, p, SegIndex(lay, "ma")))
              ELSE one(m.polynomial_ma),
          polynomial_seasonal_ar |->
              IF m.k_seasonal_ar > 0
              THEN SetAt(one(m.polynomial_seasonal_ar),
                         m._polynomial_seasonal_ar_idx,
                         RatNeg(Segment(lay, p, SegIndex(lay, "seasonal_ar"))))
              ELSE one(m.polynomial_seasonal_ar),
          polynomial_seasonal_ma |->
              IF m.k_seasonal_ma > 0
              THEN SetAt(one(m.polynomial_seasonal_ma),
                         m._polynomial_seasonal_ma_idx,
                         Segment(lay, p, SegIndex(lay, "seasonal_ma")))
              ELSE one(m.polynomial_seasonal_ma) ]

\* Entries of the unconstrained vectors: -4/3, 0, 3/4 and 4/3, which the
\* squashing function takes to -4/5, 0, 3/5 and 4/5.
ExactVals == {<<0 - 4, 3>>, <<0, 1>>, <<3, 4>>, <<4, 3>>}

\* A caller's model.transform_params(x) (lines 971-1045) on rational entries.
\* The call changes nothing in the model, so one call per behaviour shows them
\* all.
TransformParamsExact ==
    /\ status.stage = "constructed"
    /\ fit.pc = "idle"
    /\ call.op = "__init__"
    /\ \E x \in Vectors(ParamLen(self), ExactVals) :
          call' = [NoCall EXCEPT !.op = "transform_params", !.arg = x,
                                 !.out = transform_params_exact(self, x)]
    /\ UNCHANGED <<args, pred, status, self, ssm, params, fit>>

(***************************************************************************)
(* SpecStationary: transform_params on models whose lag polynomials        *)
(* include every lag up to the order (integer orders) or leave lags out    *)
(* (explicit lists), with and without enforcement.                         *)
(***************************************************************************)
ArStationaryOrders ==
    {IntOrder(1), IntOrder(2), ListOrder(<<0, 1>>), ListOrder(<<1, 0, 1>>)}

MaStationaryOrders == {IntOrder(0), IntOrder(1), IntOrder(2)}

StationarySeasonal == [P |-> IntOrder(1), D |-> 0, Q |-> IntOrder(1), s |-> 2]

ArgsStationary ==
    { MkArgs(p, 0, q, NoSeasonal, "n", [has_exog |-> FALSE, exog_cols |-> 0],
             FALSE, FALSE, TRUE, FALSE, es, ei, FALSE) :
        p \in ArStationaryOrders, q \in MaStationaryOrders,
        es \in BOOLEAN, ei \in BOOLEAN }
    \cup
    { MkArgs(IntOrder(1), 0, IntOrder(0), StationarySeasonal, "n",
             [has_exog |-> FALSE, exog_cols |-> 0],
             FALSE, FALSE, TRUE, FALSE, es, ei, FALSE) :
        es \in BOOLEAN, ei \in BOOLEAN }

InitStationary == InitWith(ArgsStationary)

NextStationary ==
    \/ Construct
    \/ TransformParamsExact

SpecStationary == InitStationary /\ [][NextStationary]_vars

\* The coefficients of a rational polynomial over their common denominator
\* (the roots are unchanged).
RECURSIVE CommonDenominator(_)
CommonDenominator(poly) ==
    IF poly = <<>> THEN 1
    ELSE LET d == CommonDenominator(Tail(poly))
         IN  (Head(poly)[2] * d) \div Gcd(Head(poly)[2], d)

ClearDenominators(poly) ==
    [j \in 1..Len(poly) |->
        poly[j][1] * (CommonDenominator(poly) \div poly[j][2])]

\* Schur-Cohn test: a(z) = a[1] + a[2] z + ... with a[1] # 0 has all its roots
\* strictly outside the unit circle iff |a[n]| < |a[1]| and so has the
\* polynomial with coefficients a[1] a[j] - a[n] a[n + 1 - j], j < n.
RECURSIVE RootsOutsideUnitCircle(_)
RootsOutsideUnitCircle(a) ==
    LET n == Len(a)
    IN  IF n <= 1 THEN a # <<0>>
        ELSE /\ Abs(a[n]) < Abs(a[1])
             /\ RootsOutsideUnitCircle(
                    [j \in 1..(n - 1) |-> a[1] * a[j] - a[n] * a[n + 1 - j]])

Stationary(poly) == RootsOutsideUnitCircle(ClearDenominators(poly))

\* Whether every lag up to the degree is included in a lag polynomial of the
\* model (for a seasonal polynomial: every multiple of s).
Dense(poly, step) ==
    \A j \in 2..Len(poly) : ((j - 1) % Max(step, 1) = 0) => poly[j] # 0

\* C20: whenever enforce_stationarity is set, the AR and seasonal AR
\* polynomials built from the vector transform_params returns have all their
\* roots strictly outside the unit circle, for every unconstrained input; so
\* have the MA and seasonal MA polynomials whenever enforce_invertibility is
\* set.
C20_EnforcedPolynomialsStationary ==
    (status.stage = "constructed" /\ call.op = "transform_params") =>
        LET polys == polynomials_exact(self, call.out)
        IN  /\ self.enforce_stationarity =>
                  /\ Stationary(polys.polynomial_ar)
                  /\ Stationary(polys.polynomial_seasonal_ar)
            /\ self.enforce_invertibility =>
                  /\ Stationary(polys.polynomial_ma)
                  /\ Stationary(polys.polynomial_seasonal_ma)

\* What the transform does guarantee: the AR polynomial when it includes every
\* lag up to its degree or has a single coefficient, the seasonal AR
\* polynomial likewise, and the MA polynomials with a single coefficient (the
\* coefficients come from the same function as the AR ones, while update
\* enters them with the opposite sign).
StationaryWhereGuaranteed ==
    (status.stage = "constructed" /\ call.op = "transform_params") =>
        LET polys == polynomials_exact(self, call.out)
        IN  /\ ( /\ self.enforce_stationarity
                 /\ Dense(self.polynomial_ar, 1) \/ self.k_ar_params <= 1 ) =>
                  Stationary(polys.polynomial_ar)
            /\ ( /\ self.enforce_stationarity
                 /\ \/ Dense(self.polynomial_seasonal_ar, self.k_seasons)
                    \/ self.k_seasonal_ar_params <= 1 ) =>
                  Stationary(polys.polynomial_seasonal_ar)
            /\ (self.enforce_invertibility /\ self.k_ma_params <= 1) =>
                  Stationary(polys.polynomial_ma)
            /\ (self.enforce_invertibility /\ self.k_seasonal_ma_params <= 1) =>
                  Stationary(polys.polynomial_seasonal_ma)


(***************************************************************************)
(* 4.5 (continued) start_params (sarimax.py lines 631-787).                *)
(*                                                                         *)
(* The least-squares solutions of the two conditional-sum-of-squares       *)
(* regressions depend on the data and are the environment's choice: one    *)
(* rational coefficient per regressor, in the order of the columns (trend, *)
(* included AR lags, included MA lags; lines 651-658).  tools.is_invertible*)
(* is not among the sources at hand; it is modelled as the exact root test *)
(* on the coefficients it is handed, and its verdict on an empty vector is *)
(* left open.                                                              *)
(***************************************************************************)
\* Lines 669-679: the slices _conditional_sum_squares cuts out of the solution
\* `sol`; k_ar and k_ma are the degrees it is called with.
css_slices(k_ar, k_ma, k_trend, sol) ==
    LET o1 == IF k_trend > 0 THEN k_trend ELSE 0
        o2 == IF k_ar > 0 THEN o1 + k_ar ELSE o1
    IN  [ ar |-> IF k_ar > 0 THEN Slice(sol, o1, o1 + k_ar) ELSE <<>>,
          ma |-> IF k_ma > 0 THEN Slice(sol, o2, o2 + k_ma) ELSE <<>> ]

\* Variant of css_slices that advances by the number of coefficients.
css_slices_by_count(n_ar, n_ma, k_trend, sol) ==
    LET o1 == IF k_trend > 0 THEN k_trend ELSE 0
    IN  [ ar |-> Slice(sol, o1, o1 + n_ar),
          ma |-> Slice(sol, o1 + n_ar, o1 + n_ar + n_ma) ]

is_invertible(coefs, on_empty) ==
    IF coefs = <<>> THEN on_empty ELSE Stationary(<< <<1, 1>> >> \o coefs)

\* Lines 719-760: the exception start_params raises, as [exc, line], for the
\* solutions nsol (non-seasonal regression) and ssol (seasonal regression).
start_params_error(m, nsol, ssol, on_empty) ==
    LET n == css_slices(m.k_ar, m.k_ma, m.k_trend, nsol)
        s == css_slices(m.k_seasonal_ar, m.k_seasonal_ma, 0, ssol)
    IN  IF m.k_ar > 0 /\ m.enforce_stationarity
           /\ ~is_invertible(RatNeg(n.ar), on_empty)
        THEN [exc |-> "ValueError", line |-> 730]
        ELSE IF m.k_ma > 0 /\ m.enforce_invertibility
                /\ ~is_invertible(n.ma, on_empty)
        THEN [exc |-> "ValueError", line |-> 737]
        ELSE IF m.k_seasonal_ar > 0 /\ m.enforce_stationarity
                /\ ~is_invertible(RatNeg(s.ar), on_empty)
        THEN [exc |-> "ValueError", line |-> 751]
        ELSE IF m.k_seasonal_ma > 0 /\ m.enforce_invertibility
                /\ ~is_invertible(s.ma, on_empty)
        THEN [exc |-> "ValueError", line |-> 758]
        ELSE Ok

\* Coefficients the regressions return: 1/2 and 3/2.
CssVals == {<<1, 2>>, <<3, 2>>}

\* fit() without start_params (mlemodel.py lines 129-145): start_params is
\* evaluated first (line 130) and its exception leaves fit at once.
FitFromEstimate ==
    /\ status.stage = "constructed"
    /\ fit.pc = "idle"
    /\ \E method \in Methods, on_empty \in BOOLEAN,
          nsol \in Vectors(self.k_trend + self.k_ar_params + self.k_ma_params,
                           CssVals),
          ssol \in Vectors(self.k_seasonal_ar_params
                             + self.k_seasonal_ma_params, CssVals) :
          LET err == start_params_error(self, nsol, ssol, on_empty)
          IN  /\ IF err.exc # "none"
                 THEN /\ status' = Raised(err.exc, err.line)
                      /\ fit' = [IdleFit EXCEPT !.pc = "raised",
                                                !.method = method]
                 ELSE FitBegin(method, FALSE, FALSE, FALSE, FALSE, FALSE)
              /\ call' = [NoCall EXCEPT !.op = "start_params",
                             !.arg = [nonseasonal |-> nsol, seasonal |-> ssol]]
    /\ UNCHANGED <<args, pred, self, ssm, params>>

(***************************************************************************)
(* SpecStart: fit without start_params on models with one or two           *)
(* coefficients per block, with and without enforcement.                   *)
(***************************************************************************)
StartSeasonal ==
    {NoSeasonal,
     [P |-> IntOrder(1), D |-> 0, Q |-> IntOrder(0), s |-> 2],
     [P |-> IntOrder(1), D |-> 0, Q |-> IntOrder(2), s |-> 2]}

ArgsStart ==
    { MkArgs(p, 0, q, so, trend, [has_exog |-> FALSE, exog_cols |-> 0],
             FALSE, FALSE, TRUE, FALSE, es, ei, FALSE) :
        p \in {IntOrder(1), IntOrder(2)}, q \in {IntOrder(0), IntOrder(1)},
        so \in StartSeasonal, trend \in {"n", "c"},
        es \in BOOLEAN, ei \in BOOLEAN }

InitStart == InitWith(ArgsStart)

NextStart ==
    \/ Construct
    \/ FitFromEstimate
    \/ OptimizerEval
    \/ OptimizerReturn

SpecStart == InitStart /\ [][NextStart]_vars

\* The lag polynomial of an estimated block: the coefficients at the included
\* lags of `poly`, negated for an AR block.
BlockPolynomial(poly, idx, coefs) ==
    SetAt([j \in 1..Len(poly) |-> <<poly[j], 1>>], idx, coefs)

\* The four estimated blocks of the last start_params evaluation: the
\* coefficients of the AR-lag and MA-lag regressors of each regression.
EstimatedBlocks ==
    LET n == css_slices_by_count(self.k_ar_params, self.k_ma_params,
                                 self.k_trend, call.arg.nonseasonal)
        s == css_slices_by_count(self.k_seasonal_ar_params,
                                 self.k_seasonal_ma_params, 0,
                                 call.arg.seasonal)
    IN  [ ar |-> BlockPolynomial(self.polynomial_ar, self._polynomial_ar_idx,
                                 RatNeg(n.ar)),
          ma |-> BlockPolynomial(self.polynomial_ma, self._polynomial_ma_idx,
                                 n.ma),
          seasonal_ar |-> BlockPolynomial(self.polynomial_seasonal_ar,
                              self._polynomial_seasonal_ar_idx, RatNeg(s.ar)),
          seasonal_ma |-> BlockPolynomial(self.polynomial_seasonal_ma,
                              self._polynomial_seasonal_ma_idx, s.ma) ]

\* Some estimated block is not stationary / invertible while its enforcement
\* flag is set.
EstimateViolatesEnforcement ==
    \/ self.enforce_stationarity /\ ~Stationary(EstimatedBlocks.ar)
    \/ self.enforce_invertibility /\ ~Stationary(EstimatedBlocks.ma)
    \/ self.enforce_stationarity /\ ~Stationary(EstimatedBlocks.seasonal_ar)
    \/ self.enforce_invertibility /\ ~Stationary(EstimatedBlocks.seasonal_ma)

FailedBeforeOptimizer ==
    /\ fit.pc = "raised"
    /\ status.exc = "ValueError"
    /\ fit.log = <<>>
    /\ fit.passes = 0
    /\ params = NoParams

\* fit has evaluated start_params and has not yet handed over to the optimizer.
StartEvaluated == call.op = "start_params" /\ fit.log = <<>>

\* C21: when fit is called without start_params and an estimated block
\* violates stationarity (invertibility) under enforcement, fit raises before
\* the optimizer is invoked, starts no pass and leaves model.params alone;
\* with both enforcement flags off the check never fails.
C21_InfeasibleStartFailsFast ==
    StartEvaluated =>
        /\ EstimateViolatesEnforcement => FailedBeforeOptimizer
        /\ (~self.enforce_stationarity /\ ~self.enforce_invertibility) =>
              fit.pc = "pass"

\* The part of C21 the code does satisfy: a raise leaves fit before the
\* optimizer, nothing is retried, and without enforcement nothing is raised.
StartFailureIsFatal ==
    /\ fit.pc = "raised" => FailedBeforeOptimizer
    /\ (StartEvaluated /\ ~self.enforce_stationarity
          /\ ~self.enforce_invertibility) => fit.pc = "pass"


(***************************************************************************)
(* Parameter names (sarimax.py lines 818-968).  A name is kept as          *)
(* [seg, i]: the segment it belongs to and the lag, trend power or exog    *)
(* column it names ('ar.L2' is [seg |-> "ar", i |-> 2]).                   *)
(***************************************************************************)
\* numpy.nonzero(p)[0] as increasing 0-based indices.
Nonzero(p) == NonzeroFrom(p, 1)

\* Lines 846-861.
model_orders(m) ==
    [ trend |-> m.k_trend, exog |-> m.k_exog, ar |-> m.k_ar, ma |-> m.k_ma,
      seasonal_ar |-> m.k_seasonal_ar, seasonal_ma |-> m.k_seasonal_ma,
      exog_variance |-> IF m.state_regression /\ m.time_varying_regression
                        THEN m.k_exog ELSE 0,
      measurement_variance |-> IF m.measurement_error THEN 1 ELSE 0,
      variance |-> IF m.state_error THEN 1 ELSE 0 ]

\* Line 818.
params_complete ==
    << "trend", "exog", "ar", "ma", "seasonal_ar", "seasonal_ma",
       "exog_variance", "measurement_variance", "variance" >>

\* Lines 823-835.
params_included(m) ==
    SelectSeq(params_complete,
              LAMBDA o : /\ model_orders(m)[o] > 0
                         /\ ~(o = "exog" /\ ~m.mle_regression))

Named(seg, idx) == [k \in 1..Len(idx) |-> [seg |-> seg, i |-> idx[k]]]

\* Lines 870-968 (_get_model_names), for the groups params_names uses: the
\* lag names are read off the nonzero entries of the current polynomials.
model_names(m) ==
    [ trend |-> Named("trend", Nonzero(m.polynomial_trend)),
      exog |-> Named("exog", [k \in 1..m.k_exog |-> k]),
      ar |-> Named("ar", NonzeroIdx(m.polynomial_ar)),
      ma |-> Named("ma", NonzeroIdx(m.polynomial_ma)),
      seasonal_ar |-> Named("seasonal_ar", NonzeroIdx(m.polynomial_seasonal_ar)),
      seasonal_ma |-> Named("seasonal_ma", NonzeroIdx(m.polynomial_seasonal_ma)),
      exog_variance |-> Named("exog_variance", [k \in 1..m.k_exog |-> k]),
      measurement_variance |-> Named("measurement_variance", <<0>>),
      variance |-> Named("variance", <<0>>) ]

\* Lines 837-844.
params_names(m) ==
    LET inc == params_included(m)
    IN  Concat([k \in 1..Len(inc) |-> model_names(m)[inc[k]]])

\* Entries of the parameter vectors of SpecNames.
NamesVals == {0, 2}

\* A caller's model.update(params) with constrained parameters of its choice.
UpdateAny ==
    /\ status.stage = "constructed"
    /\ fit.pc = "idle"
    /\ \E p \in Vectors(ParamLen(self), NamesVals) :
          DoUpdate("update", p, TRUE, TRUE)
    /\ UNCHANGED <<args, pred, fit>>

(***************************************************************************)
(* SpecNames: construction followed by updates with arbitrary vectors,     *)
(* zero coefficients included.                                             *)
(***************************************************************************)
NoExog == [has_exog |-> FALSE, exog_cols |-> 0]

ArgsNames ==
    { MkArgs(p, 0, q, NoSeasonal, trend, NoExog, FALSE, FALSE, TRUE, FALSE,
             TRUE, TRUE, FALSE) :
        p \in {IntOrder(1), ListOrder(<<0, 1>>)}, q \in OneLag,
        trend \in {"n", "ct"} }
    \cup
    { MkArgs(IntOrder(1), 0, IntOrder(0), so, "n", ex, me, FALSE, mle, FALSE,
             TRUE, TRUE, FALSE) :
        so \in {NoSeasonal,
                [P |-> IntOrder(1), D |-> 0, Q |-> IntOrder(0), s |-> 2]},
        ex \in {e \in ExogArgs : e.exog_cols <= 1},
        me \in BOOLEAN, mle \in BOOLEAN }

InitNames == InitWith(ArgsNames)

NextNames ==
    \/ Construct
    \/ UpdateAny

SpecNames == InitNames /\ [][NextNames]_vars

\* The segment each entry of the parameter vector belongs to, in the order
\* update reads them.
EntrySegments(m) ==
    LET lay == update_layout(m)
    IN  Concat([n \in 1..Len(lay) |-> Rep(lay[n].name, lay[n].len)])

NamesAtConstruction == params_names(constructed_model(Attributes(args)).self)

\* C22: params_names has one name per entry of the parameter vector, in the
\* segment order, and is the list the constructed model had, after any
\* updates.
C22_ParamsNamesFixed ==
    (status.stage = "constructed" /\ status.exc = "none") =>
        /\ [k \in 1..Len(params_names(self)) |-> params_names(self)[k].seg]
             = EntrySegments(self)
        /\ params_names(self) = NamesAtConstruction

\* The part of C22 that holds: right after construction the names match the
\* parameter vector entry by entry.
NamesMatchAfterConstruction ==
    (status.stage = "constructed" /\ call.op = "__init__") =>
        [k \in 1..Len(params_names(self)) |-> params_names(self)[k].seg]
            = EntrySegments(self)


(***************************************************************************)
(* The differencing block of the transition matrix, checked in SpecDiff.   *)
(***************************************************************************)
\* The model is in the Harvey layout and embeds non-seasonal differencing.
HarveyWithDifferencing ==
    /\ status.stage = "constructed"
    /\ ~self.hamilton_representation
    /\ self._k_diff > 0

\* C23 (as stated): the leading d x d block of the transition matrix is
\* strictly upper triangular: 1 above the diagonal, 0 on and below it.
C23_DiffBlockStrictlyUpper ==
    HarveyWithDifferencing =>
        \A i, j \in 1..self._k_diff :
            ssm.transition[i][j] = IF i < j THEN 1 ELSE 0

\* C23 (amended): the leading d x d block of the transition matrix is upper
\* triangular with its diagonal: 1 on and above the diagonal, 0 below it.
C23_DiffBlockUpperWithDiagonal ==
    HarveyWithDifferencing =>
        \A i, j \in 1..self._k_diff :
            ssm.transition[i][j] = IF i <= j THEN 1 ELSE 0

C23_Witness ==
    /\ HarveyWithDifferencing
    /\ self._k_diff = 2
    /\ call.op = "update"
    /\ ssm.transition[1][1] = 1 /\ ssm.transition[1][2] = 1
    /\ ssm.transition[2][1] = 0 /\ ssm.transition[2][2] = 1


(***************************************************************************)
(* The positions update writes (lines 418-435 and 1249-1311), checked in   *)
(* SpecBuild.                                                              *)
(***************************************************************************)
\* C24: in every constructed model the reduced AR coefficients
\* (k_ar + k_seasonal_ar of them) and the reduced MA coefficients
\* (k_ma + k_seasonal_ma, below the first row) fit in the stationary block of
\* _k_order states, and the state-intercept row of a trend in the Harvey layout
\* is the first row of a non-empty stationary block.
C24_UpdateWritesInsideBlock ==
    status.stage = "constructed" =>
        /\ (self.k_ar > 0 \/ self.k_seasonal_ar > 0) =>
              self.k_ar + self.k_seasonal_ar <= self._k_order
        /\ (self.k_ma > 0 \/ self.k_seasonal_ma > 0) =>
              self.k_ma + self.k_seasonal_ma + 1 <= self._k_order
        /\ (self.k_trend > 0 /\ ~self.hamilton_representation) =>
              /\ self._k_order > 0
              /\ diff_offset(self) < self.k_states - k_exog_states(self)

\* The same with a non-seasonal AR or MA term present: the case the code
\* handles.
WritesInsideBlockWithLags ==
    (status.stage = "constructed" /\ (self.k_ar > 0 \/ self.k_ma > 0)) =>
        /\ self.k_ar + self.k_seasonal_ar <= self._k_order
        /\ self.k_ma + self.k_seasonal_ma + 1 <= self._k_order
        /\ diff_offset(self) < self.k_states - k_exog_states(self)
        /\ update_error(self, ssm).exc = "none"


\* C25: on a model built with enforce_stationarity = FALSE that the caller
\* has not initialized, the automatic initialization run by an update
\* leaves the approximate diffuse distribution for every state: no
\* stationary sub-block is computed and no Lyapunov equation is solved.
C25_UnenforcedInitializationIsDiffuse ==
    [][ ( /\ call' # call
          /\ call'.op = "update"
          /\ status'.exc = "none"
          /\ ~self.enforce_stationarity
          /\ ~self._manual_initialization ) =>
            /\ ssm'.initialization.kind = "approximate_diffuse"
            /\ ~ssm'.initialization.lyapunov ]_vars

\* What initialize_state does instead: the call at line 474 sets the flag
\* and the method goes on to line 511, so the same update stores the known
\* distribution with the Lyapunov solution of the order block.
UnenforcedInitializationFallsThrough ==
    [][ ( /\ call' # call
          /\ call'.op = "update"
          /\ status'.exc = "none"
          /\ ~self.enforce_stationarity
          /\ ~self._manual_initialization ) =>
            /\ self'._manual_initialization
            /\ ssm'.initialization
                 = [kind |-> "known", lyapunov |-> self._k_order > 0,
                    of |-> call'.out, given |-> <<>>] ]_vars


(***************************************************************************)
(* 4.7 The results object (sarimax.py lines 1342-1427, mlemodel.py lines   *)
(* 484-533).  fit creates it at line 174 from the model as the final       *)
(* update left it; its attributes are computed once, at that moment.       *)
(***************************************************************************)
\* Lines 1390-1397: the bounds start:end of the slice taken for each
\* included group, advanced by model_orders[name].
RECURSIVE result_slice_end(_, _)
result_slice_end(m, k) ==
    IF k = 0 THEN 0
    ELSE result_slice_end(m, k - 1) + model_orders(m)[params_included(m)[k]]

\* Lines 1393-1397: the attribute _params_<name> of every included group,
\* the slice params[start:end] of the result's parameter vector.
result_params(m, p) ==
    [ k \in 1..Len(params_included(m)) |->
        [ name |-> params_included(m)[k],
          start |-> result_slice_end(m, k - 1),
          end |-> result_slice_end(m, k),
          v |-> Slice(p, result_slice_end(m, k - 1), result_slice_end(m, k)) ] ]

\* Lines 1377-1379.
result_polynomial_reduced_ar(m) ==
    <<1>> \o Neg(polymul(m.polynomial_ar, m.polynomial_seasonal_ar))

\* Lines 1380-1382.
result_polynomial_reduced_ma(m) ==
    <<1>> \o polymul(m.polynomial_ma, m.polynomial_seasonal_ma)

\* res = model.fit(start_params) with the defaults of line 67-69 (lbfgs, one
\* pass, the results object returned), up to the first call of the optimizer.
FitDefaults ==
    /\ status.stage = "constructed"
    /\ fit.pc = "idle"
    /\ FitBegin("lbfgs", FALSE, TRUE, TRUE, FALSE, FALSE)
    /\ UNCHANGED <<args, pred, self, ssm, params, call>>

\* A caller's model.score(x) after fit has returned (lines 232-257): the
\* last objective evaluation is update(x, transformed=False,
\* set_params=False).
ScoreFitted ==
    /\ fit.pc = "returned"
    /\ status.exc = "none"
    /\ \E x \in EvalPoints(self) :
          DoUpdate("score", x, ScoreDefaults.transformed,
                   ScoreDefaults.set_params)
    /\ UNCHANGED <<args, pred, fit>>

\* The first access of res.cov_params (mlemodel.py lines 521-533; cached
\* afterwards): model.hessian(unconstrained, set_params=False), whose last
\* objective evaluation is update(x, transformed=False, set_params=False) at
\* a point x near the estimate, then model.update(model.params).
CovParams ==
    /\ fit.pc = "returned"
    /\ fit.result.kind = "results"
    /\ status.exc = "none"
    /\ \A i \in 1..Len(fit.log) : fit.log[i] # "cov_params"
    /\ \E x \in EvalPoints(self) :
          LET h == SARIMAX_update(self, ssm,
                                  MLEModel_update_params(self, x, FALSE))
          IN  IF h.err.exc # "none"
              THEN UpdateWith("cov_params", x, FALSE, FALSE, x, h)
              ELSE UpdateWith("cov_params", params.v, TRUE, TRUE, params.v,
                              SARIMAX_update(h.self, h.ssm, params.v))
    /\ fit' = [fit EXCEPT !.log = Append(@, "cov_params")]
    /\ UNCHANGED <<args, pred>>

(***************************************************************************)
(* SpecResults: construction, fit with its defaults, then score and        *)
(* cov_params calls on the fitted model and its results.                   *)
(***************************************************************************)
\* An AR(1), an ARMA(1,1) with constant and measurement error, an AR with
\* lag 2 only, a seasonal AR(1)x(1)_2, a seasonal MA(1)x(1)_2, an AR(1)
\* with one regressor, and an ARIMA(1,1,0) without enforcement.
ArgsResults ==
    { MkArgs(IntOrder(1), 0, IntOrder(0), NoSeasonal, "n", NoExog,
             FALSE, FALSE, TRUE, FALSE, TRUE, TRUE, FALSE),
      MkArgs(IntOrder(1), 0, IntOrder(1), NoSeasonal, "c", NoExog,
             TRUE, FALSE, TRUE, FALSE, TRUE, TRUE, FALSE),
      MkArgs(ListOrder(<<0, 1>>), 0, IntOrder(1), NoSeasonal, "n", NoExog,
             FALSE, FALSE, TRUE, FALSE, TRUE, TRUE, FALSE),
      MkArgs(IntOrder(1), 0, IntOrder(0),
             [P |-> IntOrder(1), D |-> 0, Q |-> IntOrder(0), s |-> 2],
             "n", NoExog, FALSE, FALSE, TRUE, FALSE, TRUE, TRUE, FALSE),
      MkArgs(IntOrder(0), 0, IntOrder(1),
             [P |-> IntOrder(0), D |-> 0, Q |-> IntOrder(1), s |-> 2],
             "n", NoExog, FALSE, FALSE, TRUE, FALSE, TRUE, TRUE, FALSE),
      MkArgs(IntOrder(1), 0, IntOrder(0), NoSeasonal, "n",
             [has_exog |-> TRUE, exog_cols |-> 1],
             FALSE, FALSE, TRUE, FALSE, TRUE, TRUE, FALSE),
      MkArgs(IntOrder(1), 1, IntOrder(0), NoSeasonal, "n", NoExog,
             FALSE, FALSE, TRUE, FALSE, FALSE, FALSE, FALSE) }

InitResults == InitWith(ArgsResults)

NextResults ==
    \/ Construct
    \/ FitDefaults
    \/ OptimizerEval
    \/ OptimizerReturn
    \/ FinalUpdate
    \/ FinalFilter
    \/ ScoreFitted
    \/ CovParams

SpecResults == InitResults /\ [][NextResults]_vars

\* fit has just returned the results object res.
ResultCreated ==
    /\ fit.pc = "returned"
    /\ fit.result.kind = "results"
    /\ call.op = "filter"

\* The lag degrees equal the parameter counts: integer orders, no seasonal
\* lags.
DenseOrders(m) ==
    /\ m.k_ar = m.k_ar_params
    /\ m.k_ma = m.k_ma_params
    /\ m.k_seasonal_ar = m.k_seasonal_ar_params
    /\ m.k_seasonal_ma = m.k_seasonal_ma_params

\* The slices of res are the non-empty segments of the layout update reads,
\* each at its offset and of its length.
SlicesAreSegments(m, p) ==
    LET lay == update_layout(m)
        used == SelectSeq(lay, LAMBDA g : g.len > 0)
        res == result_params(m, p)
    IN  /\ Len(res) = Len(used)
        /\ \A k \in 1..Len(res) :
              /\ res[k].name = used[k].name
              /\ res[k].start = SegStart(lay, SegIndex(lay, used[k].name))
              /\ res[k].end = res[k].start + used[k].len
              /\ res[k].v = Segment(lay, p, SegIndex(lay, used[k].name))

\* C26: on a result the per-group slices _params_<name> are consecutive,
\* cover the parameter vector, and each is its group's segment (same offset,
\* same length, same entries), arparams and maparams among them.
C26_ResultSlicesAreSegments ==
    ResultCreated => SlicesAreSegments(self, fit.result.params)

\* The part of C26 that holds: models whose lag degrees equal their
\* parameter counts.
SlicesAreSegmentsForDenseOrders ==
    (ResultCreated /\ DenseOrders(self)) =>
        SlicesAreSegments(self, fit.result.params)


\* C29: on a result polynomial_reduced_ar is the product of the AR and
\* seasonal AR lag polynomials and polynomial_reduced_ma that of the MA and
\* seasonal MA lag polynomials, of length degree + 1 with coefficient 0
\* equal to 1.
C29_ReducedPolynomialsAreProducts ==
    ResultCreated =>
        /\ result_polynomial_reduced_ar(self)
             = polymul(self.polynomial_ar, self.polynomial_seasonal_ar)
        /\ result_polynomial_reduced_ma(self)
             = polymul(self.polynomial_ma, self.polynomial_seasonal_ma)
        /\ Len(result_polynomial_reduced_ar(self))
             = self.k_ar + self.k_seasonal_ar + 1
        /\ Len(result_polynomial_reduced_ma(self))
             = self.k_ma + self.k_seasonal_ma + 1
        /\ result_polynomial_reduced_ar(self)[1] = 1
        /\ result_polynomial_reduced_ma(self)[1] = 1

\* What the arrays of lines 1377-1382 hold: a leading 1 followed by the
\* whole product (negated for the AR side), one entry more than the
\* degree + 1, so that the constant term of the product comes second.
ReducedPolynomialsCarryExtraEntry ==
    ResultCreated =>
        /\ Tail(result_polynomial_reduced_ar(self))
             = Neg(polymul(self.polynomial_ar, self.polynomial_seasonal_ar))
        /\ Tail(result_polynomial_reduced_ma(self))
             = polymul(self.polynomial_ma, self.polynomial_seasonal_ma)
        /\ Len(result_polynomial_reduced_ar(self))
             = self.k_ar + self.k_seasonal_ar + 2
        /\ Len(result_polynomial_reduced_ma(self))
             = self.k_ma + self.k_seasonal_ma + 2
        /\ result_polynomial_reduced_ar(self)[2] = 0 - 1
        /\ result_polynomial_reduced_ma(self)[2] = 1


\* C30: the first access of cov_params leaves the model as it was just
\* before, whatever was done with the model up to then: model.params and
\* the contents of the representation are unchanged.
C30_CovParamsLeavesModel ==
    [][ (call' # call /\ call'.op = "cov_params") =>
            /\ params' = params
            /\ ssm' = ssm ]_vars

\* What cov_params does: model.params is kept, and when the Hessian went
\* through the matrices are the ones of update(model.params), so the model
\* is as before exactly when its matrices held model.params.
CovParamsResetsToModelParams ==
    [][ (call' # call /\ call'.op = "cov_params") =>
            /\ params' = params
            /\ status'.exc = "none" =>
                  /\ ssm'.transition
                       = SARIMAX_update(self, ssm, params.v).ssm.transition
                  /\ ssm'.state_cov
                       = SARIMAX_update(self, ssm, params.v).ssm.state_cov
                  /\ (call.op = "filter" => ssm' = ssm) ]_vars


(***************************************************************************)
(* SpecRebuild: construction of a model with a regression component, fit   *)
(* with its defaults, then one prediction or forecast.                     *)
(***************************************************************************)
OneRegressor == [has_exog |-> TRUE, exog_cols |-> 1]

\* With one regressor each: an AR(1) and an MA(1) estimated by maximum
\* likelihood, an AR(1) with the regressor in the state, an AR with lag 2
\* only, and a seasonal AR(1)x(1)_2.
ArgsRebuild ==
    { MkArgs(IntOrder(1), 0, IntOrder(0), NoSeasonal, "n", OneRegressor,
             FALSE, FALSE, TRUE, FALSE, TRUE, TRUE, FALSE),
      MkArgs(IntOrder(0), 0, IntOrder(1), NoSeasonal, "c", OneRegressor,
             FALSE, FALSE, TRUE, FALSE, TRUE, TRUE, FALSE),
      MkArgs(IntOrder(1), 0, IntOrder(0), NoSeasonal, "n", OneRegressor,
             FALSE, FALSE, FALSE, FALSE, TRUE, TRUE, FALSE),
      MkArgs(ListOrder(<<0, 1>>), 0, IntOrder(0), NoSeasonal, "n", OneRegressor,
             FALSE, FALSE, TRUE, FALSE, TRUE, TRUE, FALSE),
      MkArgs(IntOrder(1), 0, IntOrder(0),
             [P |-> IntOrder(1), D |-> 0, Q |-> IntOrder(0), s |-> 2],
             "n", OneRegressor, FALSE, FALSE, TRUE, FALSE, TRUE, TRUE, FALSE) }

InitRebuild == InitWith(ArgsRebuild)

NextRebuild ==
    \/ Construct
    \/ FitDefaults
    \/ OptimizerEval
    \/ OptimizerReturn
    \/ FinalUpdate
    \/ FinalFilter
    \/ Predict
    \/ Forecast

SpecRebuild == InitRebuild /\ [][NextRebuild]_vars

\* The last predict or forecast call reached line 1454: the horizon extends
\* past the sample, the model has a regression component, and exog was
\* given with the required shape.
Rebuilt ==
    /\ pred.op \in {"predict", "forecast"}
    /\ pred.out_of_sample > 0
    /\ needs_exog(self, pred.out_of_sample)
    /\ pred.exog.given
    /\ <<pred.exog.rows, pred.exog.cols>> = <<pred.out_of_sample, self.k_exog>>

\* The attributes the constructor derives from the arguments of the model
\* rebuilt at lines 1454-1468.
RebuiltAttributes ==
    Attributes(predict_model_args(self, args, pred.exog, pred.out_of_sample))

\* Models m and r include the same lags, have states and disturbances of the
\* same size, and cut the parameter vector into the same segments.
SameStructure(m, r) ==
    /\ r.polynomial_ar = m.polynomial_ar
    /\ r.polynomial_ma = m.polynomial_ma
    /\ r.polynomial_seasonal_ar = m.polynomial_seasonal_ar
    /\ r.polynomial_seasonal_ma = m.polynomial_seasonal_ma
    /\ r.k_states = m.k_states
    /\ r.k_posdef = m.k_posdef
    /\ update_layout(r) = update_layout(m)

\* C27: the model predict rebuilds for out-of-sample forecasting with a
\* regression component has the structure of the fitted model: the same
\* four inclusion vectors, k_states, k_posdef and parameter segment layout.
C27_RebuiltModelHasSameStructure ==
    Rebuilt => SameStructure(Attributes(args), RebuiltAttributes)

\* The part of C27 that holds: fitted models whose lag degrees equal their
\* parameter counts.
RebuiltSameForDenseOrders ==
    (Rebuilt /\ DenseOrders(self)) =>
        SameStructure(Attributes(args), RebuiltAttributes)


\* C28: a predict call whose start and end are both in the sample, made
\* with exog=None, never raises the exogenous-values-required error of line
\* 1441, whichever kind of regression the model has.
C28_InSampleNeedsNoExog ==
    (/\ pred.op = "predict"
     /\ pred.out_of_sample = 0
     /\ ~pred.exog.given) =>
        pred.err # [exc |-> "ValueError", line |-> 1441]

\* The part of C28 that holds: models without a regression in the state.
\* With one, line 1439 asks for exog whatever the horizon.
InSampleNeedsNoExogUnlessStateRegression ==
    (/\ pred.op = "predict"
     /\ pred.out_of_sample = 0
     /\ ~pred.exog.given) =>
        /\ ~self.state_regression =>
              /\ pred.err.exc = "none"
              /\ pred.delegated
        /\ self.state_regression =>
              pred.err = [exc |-> "ValueError", line |-> 1441]

=============================================================================
